---- MODULE Spec2Model ----
(***************************************************************************)
(* A model of the cudf_polars DSL evaluators:                              *)
(*   - the expression nodes of cudf_polars/dsl/expr.py (Gather, Filter,    *)
(*     BooleanFunction, Agg), evaluated on bounded columns;                *)
(*   - the logical-plan nodes of cudf_polars/dsl/ir.py (construction with  *)
(*     its __post_init__ validation, then recursive evaluation with the    *)
(*     evaluation cache), as an explicit call stack.                       *)
(* The pylibcudf primitives and the cudf_polars.containers classes are not *)
(* part of the modelled sources; they are modelled from their documented   *)
(* contract.                                                               *)
(***************************************************************************)
EXTENDS Integers, Sequences, FiniteSets, TLC

VARIABLES
    \* expression evaluator
    enode,      \* the expression node under evaluation: [kind, name, options]
    values,     \* the evaluated first child (a Column)
    aux,        \* the evaluated second child (index column / mask column)
    context,    \* the ExecutionContext passed to evaluate
    epc,        \* "new" -> "built" -> "done" (or "rejected")
    out,        \* outcome of the last construct / evaluate call
    \* logical-plan evaluator
    nodes,      \* the constructed plan nodes, by position (object identity)
    args,       \* the arguments of the plan-node constructor call
    ctor,       \* outcome of the last plan-node constructor call
    phase,      \* "idle" | "build" | "rejected" | "eval" | "raise" | "done"
    stack,      \* the Python call stack of evaluate() frames
    cache,      \* the cache dict of this top-level evaluation
    ret,        \* the frame returned to the top-level caller (0: none)
    err,        \* the exception a constructor or the evaluation raised
    nframes,    \* number of DataFrame objects created so far
    log,        \* history: the evaluate calls made so far
    \* one plan node evaluated on given child frames
    frames,     \* the frames the node's children evaluate to
    res         \* outcome of the node's evaluate call

evars == <<enode, values, aux, context, epc, out>>
pvars == <<nodes, args, ctor, phase, stack, cache, ret, err, nframes, log>>
nvars == <<frames, res>>
vars == <<enode, values, aux, context, epc, out,
          nodes, args, ctor, phase, stack, cache, ret, err, nframes, log,
          frames, res>>

----------------------------------------------------------------------------
(* Bounds of the model *)

\* largest number of rows of an input column
MaxRows == 2
\* largest number of entries of a gather index column
MaxIdx == 2
\* largest number of plan nodes constructed
MaxNodes == 4
\* largest height of an aggregation-request expression tree
MaxDepth == 2
\* largest number of inputs of a Union
MaxPieces == 2

----------------------------------------------------------------------------
(* Columns: cudf_polars.containers.Column over a pylibcudf column *)

\* one row of a pylibcudf column: a value or null
Cell(v) == [null |-> FALSE, v |-> v]
NullInt == [null |-> TRUE, v |-> 0]
NullBool == [null |-> TRUE, v |-> FALSE]

SeqsUpTo(S, k) == UNION {[1..m -> S] : m \in 0..k}

\* Column(obj, name): a fresh column is not tagged sorted
Column(obj, name) ==
    [name |-> name, obj |-> obj, is_sorted |-> FALSE,
     order |-> "ASCENDING", null_order |-> "BEFORE"]

\* Column.with_sorted(like=...): copy the three sortedness fields
with_sorted(col, like) ==
    [col EXCEPT !.is_sorted = like.is_sorted, !.order = like.order,
                !.null_order = like.null_order]

\* Column.set_sorted(is_sorted=, order=, null_order=)
set_sorted(col, is_sorted, order, null_order) ==
    [col EXCEPT !.is_sorted = is_sorted, !.order = order,
                !.null_order = null_order]

null_count(obj) == Cardinality({i \in DOMAIN obj : obj[i].null})

NonNull(obj) == {obj[i].v : i \in {j \in DOMAIN obj : ~obj[j].null}}

SetMin(S) == CHOOSE x \in S : \A y \in S : x <= y
SetMax(S) == CHOOSE x \in S : \A y \in S : x >= y

\* the Python value None
None == [none |-> TRUE]

----------------------------------------------------------------------------
(* pylibcudf primitives used by the expression nodes *)

\* plc.reduce.minmax followed by interop.to_arrow(...).as_py(): the smallest
\* and largest non-null value, or None for both when there is none
minmax(obj) ==
    IF NonNull(obj) = {}
    THEN [none |-> TRUE, lo |-> 0, hi |-> 0]
    ELSE [none |-> FALSE, lo |-> SetMin(NonNull(obj)),
          hi |-> SetMax(NonNull(obj))]

\* plc.replace.replace_nulls(column, scalar)
replace_nulls(obj, v) ==
    [i \in DOMAIN obj |-> IF obj[i].null THEN Cell(v) ELSE obj[i]]

\* one gathered row: index i selects row i, a negative i row n + i; a row
\* outside the table is null under NULLIFY and unspecified under DONT_CHECK
\* (the null cell stands for whatever was read)
gather_row(obj, i, policy) ==
    LET n == Len(obj)
        r == IF i < 0 THEN i + n ELSE i
    IN  IF r >= 0 /\ r < n THEN obj[r + 1] ELSE NullInt

\* plc.copying.gather(table, gather_map, bounds_policy) on one column
gather(obj, map, policy) ==
    [j \in DOMAIN map |-> gather_row(obj, map[j].v, policy)]

\* plc.stream_compaction.apply_boolean_mask: keep the rows whose mask entry
\* is true, in order; a null mask entry selects nothing
RECURSIVE apply_boolean_mask(_, _)
apply_boolean_mask(obj, mask) ==
    IF obj = <<>> THEN <<>>
    ELSE LET rest == apply_boolean_mask(Tail(obj), Tail(mask))
         IN  IF ~Head(mask).null /\ Head(mask).v
             THEN <<Head(obj)>> \o rest ELSE rest

----------------------------------------------------------------------------
(* Expression nodes: cudf_polars/dsl/expr.py *)

\* what a call leaves behind: the exception raised ("none" if it returned),
\* the returned Column, and the primitive calls it made
Raised(e) ==
    [err |-> e, result |-> None, gather_calls |-> 0,
     policy |-> "none", map |-> <<>>]
Returned(col) ==
    [err |-> "none", result |-> col, gather_calls |-> 0,
     policy |-> "none", map |-> <<>>]

\* Gather.evaluate, after the bounds check: choose the bounds policy, replace
\* null indices by the sentinel n, gather
Gather_gather(vals, indices, n) ==
    LET nulls == null_count(indices.obj) > 0
        policy == IF nulls THEN "NULLIFY" ELSE "DONT_CHECK"
        obj == IF nulls THEN replace_nulls(indices.obj, n) ELSE indices.obj
    IN  [err |-> "none",
         result |-> Column(gather(vals.obj, obj, policy), vals.name),
         gather_calls |-> 1, policy |-> policy, map |-> obj]

\* Gather.evaluate with the upper bound compared by > instead of >=
Gather_evaluate_OffByOne(vals, indices, n) ==
    LET mm == minmax(indices.obj)
    IN  IF mm.none
        THEN Raised("TypeError")
        ELSE IF mm.hi > n \/ mm.lo < -n
        THEN Raised("ValueError")
        ELSE Gather_gather(vals, indices, n)

\* Gather.evaluate(df): vals and indices are the evaluated children, n is
\* df.num_rows
Gather_evaluate(vals, indices, n) ==
    LET mm == minmax(indices.obj)
    IN  IF mm.none
        THEN Raised("TypeError")     \* None >= n
        ELSE IF mm.hi >= n \/ mm.lo < -n
        THEN Raised("ValueError")    \* gather indices are out of bounds
        ELSE Gather_gather(vals, indices, n)

\* Filter.evaluate dropping the sortedness of its input
Filter_evaluate_untagged(vals, mask) ==
    Returned(Column(apply_boolean_mask(vals.obj, mask.obj), vals.name))

\* Filter.evaluate(df)
Filter_evaluate(vals, mask) ==
    Returned(with_sorted(
        Column(apply_boolean_mask(vals.obj, mask.obj), vals.name), vals))


\* Expr.evaluate: the base class implements nothing
Expr_evaluate ==
    Raised("NotImplementedError")

\* BooleanFunction declares fields only; its evaluate is Expr.evaluate
BooleanFunction_evaluate(vals) ==
    Expr_evaluate

\* Agg._SUPPORTED
Agg_SUPPORTED ==
    {"min", "max", "median", "nunique", "first", "last", "mean", "sum",
     "count", "std", "var", "agg_groups"}

\* the methods _<name> that class Agg defines
Agg_methods ==
    {"std", "var", "sum", "count", "min", "max", "median", "first", "last",
     "mean", "nunique"}

\* Agg.__init__(dtype, column, name, options): the node, or the exception
Agg_init(name, options) ==
    IF name \notin Agg_SUPPORTED
    THEN [err |-> "NotImplementedError", node |-> None]
    ELSE IF name \notin Agg_methods
    THEN [err |-> "AttributeError", node |-> None]   \* getattr(self, "_name")
    ELSE [err |-> "none",
          node |-> [kind |-> "Agg", name |-> name, options |-> options,
                    op |-> name]]

\* plc.reduce.reduce(column, aggregation, dtype): a scalar, kept symbolic
reduce(obj, agg) ==
    [null |-> FALSE, v |-> <<agg, obj>>]

\* plc.Column.from_scalar(scalar, size)
from_scalar(scalar, size) ==
    [i \in 1..size |-> scalar]

\* plc.copying.slice(column, [begin, end])[0]: the rows begin..end-1; with a
\* range outside the column the primitive either raises or clamps the range
slice(obj, begin, end) ==
    IF 0 <= begin /\ begin <= end /\ end <= Len(obj)
    THEN {[err |-> "none", obj |-> SubSeq(obj, begin + 1, end)]}
    ELSE {[err |-> "IndexError", obj |-> <<>>],
          [err |-> "none",
           obj |-> SubSeq(obj, (IF begin < 0 THEN 0 ELSE begin) + 1,
                          IF end > Len(obj) THEN Len(obj) ELSE end)]}

\* the outcome of wrapping a primitive's result in Column(..., name)
Wrap(r, name) ==
    IF r.err = "none" THEN Returned(Column(r.obj, name)) ELSE Raised(r.err)

\* Agg._min / Agg._max(column, propagate_nans=options)
Agg_minmax(node, col, nan_count) ==
    IF node.options /\ nan_count > 0
    THEN {Returned(Column(from_scalar([null |-> FALSE, v |-> <<"nan">>], 1),
                          col.name))}
    ELSE {Returned(Column(from_scalar(reduce(col.obj, node.name), 1),
                          col.name))}

\* Agg._first
Agg_first(col) ==
    {Wrap(r, col.name) : r \in slice(col.obj, 0, 1)}

\* Agg._last
Agg_last(col) ==
    LET n == Len(col.obj)
    IN  {Wrap(r, col.name) : r \in slice(col.obj, n - 1, n)}

\* Agg._std, _var, _sum, _count, _median, _mean, _nunique
Agg_reduce(node, col) ==
    {Returned(Column(from_scalar(reduce(col.obj, node.name), 1), col.name))}

\* self.op(column): the method bound in __init__
Agg_op(node, col, nan_count) ==
    CASE node.op \in {"min", "max"} -> Agg_minmax(node, col, nan_count)
      [] node.op = "first" -> Agg_first(col)
      [] node.op = "last" -> Agg_last(col)
      [] OTHER -> Agg_reduce(node, col)

\* Agg.evaluate(df, context=...): the possible outcomes
Agg_evaluate(node, col, nan_count, ctx) ==
    IF ctx # "FRAME"
    THEN {Raised("NotImplementedError")}
    ELSE Agg_op(node, col, nan_count)


----------------------------------------------------------------------------
(* Inputs of the expression evaluator *)

\* integer columns whose non-null rows are told apart by their value
ValueObjs ==
    UNION {{[j \in 1..m |-> IF j \in N THEN NullInt ELSE Cell(10 * j)] :
            N \in SUBSET (1..m)} : m \in 0..MaxRows}

\* gather index columns: in range, out of range on either side, null
IndexCells ==
    {Cell(i) : i \in (0 - MaxRows - 1)..(MaxRows + 1)} \cup {NullInt}
IndexObjs == SeqsUpTo(IndexCells, MaxIdx)

DataObjs == SeqsUpTo({Cell(1), Cell(2), NullInt}, MaxRows)
BoolCells == {Cell(TRUE), Cell(FALSE), NullBool}
BoolObjs == SeqsUpTo(BoolCells, MaxRows)

\* the value order of two cells under a null order: BEFORE puts null below
\* every value, AFTER above
CellLE(a, b, null_order) ==
    IF a.null /\ b.null THEN TRUE
    ELSE IF a.null THEN null_order = "BEFORE"
    ELSE IF b.null THEN null_order = "AFTER"
    ELSE a.v <= b.v

\* whether the rows are in the order a sortedness tag states
InOrder(obj, order, null_order) ==
    \A i, j \in DOMAIN obj :
        i < j => IF order = "ASCENDING"
                 THEN CellLE(obj[i], obj[j], null_order)
                 ELSE CellLE(obj[j], obj[i], null_order)

\* columns with every sortedness tag their rows allow
TaggedCols ==
    {c \in [name : {"a"}, obj : DataObjs, is_sorted : BOOLEAN,
            order : {"ASCENDING", "DESCENDING"},
            null_order : {"BEFORE", "AFTER"}] :
        c.is_sorted => InOrder(c.obj, c.order, c.null_order)}

AggNames == Agg_SUPPORTED \cup {"implode", "quantile", "agg_list"}
Contexts == {"FRAME", "GROUPBY", "ROLLING"}

NoOut == [err |-> "none", result |-> None, gather_calls |-> 0,
          policy |-> "none", map |-> <<>>]
NoCol == Column(<<>>, "")

----------------------------------------------------------------------------
(* The expression evaluator as a state machine: an expression node is      *)
(* constructed, then evaluated once on its evaluated children              *)

NoArgs == [agg_requests |-> <<>>, keys |-> <<>>, maintain_order |-> FALSE]
CtorOk(n) == [err |-> "none", msg |-> "", inspected |-> n]
CtorRaised(e, m, n) == [err |-> e, msg |-> m, inspected |-> n]

\* no node is evaluated on given frames
NodeIdle ==
    /\ frames = <<>>
    /\ res = [err |-> "none"]

PlanIdle ==
    /\ nodes = <<>>
    /\ args = NoArgs
    /\ ctor = CtorOk(0)
    /\ phase = "idle"
    /\ stack = <<>>
    /\ cache = <<>>
    /\ ret = 0
    /\ err = "none"
    /\ nframes = 0
    /\ log = <<>>

InitGather ==
    /\ enode = [kind |-> "Gather", name |-> "gather", options |-> FALSE,
                op |-> "none"]
    /\ values \in {Column(o, "a") : o \in ValueObjs}
    /\ aux \in {Column(o, "i") : o \in IndexObjs}
    /\ context = "FRAME"
    /\ epc = "built"

InitFilter ==
    /\ enode = [kind |-> "Filter", name |-> "filter", options |-> FALSE,
                op |-> "none"]
    /\ values \in TaggedCols
    /\ aux \in {Column(o, "m") : o \in BoolObjs}
    /\ Len(aux.obj) = Len(values.obj)
    /\ context = "FRAME"
    /\ epc = "built"

InitBooleanFunction ==
    /\ enode \in {[kind |-> "BooleanFunction", name |-> f, options |-> FALSE,
                   op |-> "none"] : f \in {"Any", "All"}}
    /\ values \in {Column(o, "a") : o \in BoolObjs}
    /\ aux = NoCol
    /\ context = "FRAME"
    /\ epc = "built"

\* an Agg node is still to be constructed: name and options are the
\* constructor's arguments, aux carries the column's nan_count
InitAgg ==
    /\ enode \in {[kind |-> "Agg", name |-> f, options |-> o, op |-> "none"] :
                  f \in AggNames, o \in BOOLEAN}
    /\ values \in {Column(o, "a") : o \in ValueObjs}
    /\ aux \in {Column(<<Cell(k)>>, "nan_count") : k \in 0..1}
    /\ context \in Contexts
    /\ epc = "new"

InitExpr ==
    /\ InitGather \/ InitFilter \/ InitBooleanFunction \/ InitAgg
    /\ out = NoOut
    /\ PlanIdle
    /\ NodeIdle

GatherEvaluate ==
    /\ epc = "built" /\ enode.kind = "Gather"
    /\ out' = Gather_evaluate(values, aux, Len(values.obj))
    /\ epc' = "done"
    /\ UNCHANGED <<enode, values, aux, context>>
    /\ UNCHANGED pvars
    /\ UNCHANGED nvars

FilterEvaluate ==
    /\ epc = "built" /\ enode.kind = "Filter"
    /\ out' = Filter_evaluate(values, aux)
    /\ epc' = "done"
    /\ UNCHANGED <<enode, values, aux, context>>
    /\ UNCHANGED pvars
    /\ UNCHANGED nvars

BooleanFunctionEvaluate ==
    /\ epc = "built" /\ enode.kind = "BooleanFunction"
    /\ out' = BooleanFunction_evaluate(values)
    /\ epc' = "done"
    /\ UNCHANGED <<enode, values, aux, context>>
    /\ UNCHANGED pvars
    /\ UNCHANGED nvars

AggConstruct ==
    /\ epc = "new" /\ enode.kind = "Agg"
    /\ LET r == Agg_init(enode.name, enode.options)
       IN  /\ out' = [NoOut EXCEPT !.err = r.err]
           /\ IF r.err = "none"
              THEN enode' = r.node /\ epc' = "built"
              ELSE enode' = enode /\ epc' = "rejected"
    /\ UNCHANGED <<values, aux, context>>
    /\ UNCHANGED pvars
    /\ UNCHANGED nvars

AggEvaluate ==
    /\ epc = "built" /\ enode.kind = "Agg"
    /\ out' \in Agg_evaluate(enode, values, aux.obj[1].v, context)
    /\ epc' = "done"
    /\ UNCHANGED <<enode, values, aux, context>>
    /\ UNCHANGED pvars
    /\ UNCHANGED nvars

NextExpr ==
    \/ GatherEvaluate
    \/ FilterEvaluate
    \/ BooleanFunctionEvaluate
    \/ AggConstruct
    \/ AggEvaluate

SpecExpr == InitExpr /\ [][NextExpr]_vars


----------------------------------------------------------------------------
(* Properties of the expression evaluator (checked under SpecExpr) *)

GatherDone == epc = "done" /\ enode.kind = "Gather"
FilterDone == epc = "done" /\ enode.kind = "Filter"
BooleanFunctionDone == epc = "done" /\ enode.kind = "BooleanFunction"
AggConstructed == enode.kind = "Agg" /\ epc \in {"built", "rejected"}
AggDone == epc = "done" /\ enode.kind = "Agg"

\* some non-null index lies outside [-n, n)
OutOfBounds(indices, n) ==
    \E j \in DOMAIN indices.obj :
        /\ ~indices.obj[j].null
        /\ (indices.obj[j].v < 0 - n \/ indices.obj[j].v >= n)

\* C2: Gather.evaluate on a frame of n rows raises ValueError whenever some
\* non-null index is outside [-n, n), and then the gather primitive was not
\* called; when every non-null index is inside [-n, n) it raises no bounds
\* error.
C2_GatherBoundsError ==
    GatherDone =>
        IF OutOfBounds(aux, Len(values.obj))
        THEN out.err = "ValueError" /\ out.gather_calls = 0
        ELSE out.err # "ValueError"

C2_Witness ==
    /\ GatherDone
    /\ OutOfBounds(aux, Len(values.obj))
    /\ null_count(aux.obj) > 0
    /\ Len(values.obj) = MaxRows
    /\ out.err = "ValueError"

\* the row the claim expects for one index
ExpectedRow(vals, idx) ==
    IF idx.null THEN NullInt
    ELSE IF idx.v >= 0 THEN vals.obj[idx.v + 1]
    ELSE vals.obj[Len(vals.obj) + idx.v + 1]

\* C3: for every index column whose non-null entries are all in [-n, n),
\* entirely null and empty columns included, Gather.evaluate returns one row
\* per index (i >= 0 selects row i, i < 0 row n + i, null a null row), with
\* NULLIFY and nulls replaced by n exactly when the column has a null, and
\* DONT_CHECK otherwise.
C3_GatherSelects ==
    (GatherDone /\ ~OutOfBounds(aux, Len(values.obj))) =>
        /\ out.err = "none"
        /\ out.gather_calls = 1
        /\ Len(out.result.obj) = Len(aux.obj)
        /\ \A j \in DOMAIN aux.obj :
               out.result.obj[j] = ExpectedRow(values, aux.obj[j])
        /\ out.policy = IF null_count(aux.obj) > 0
                        THEN "NULLIFY" ELSE "DONT_CHECK"
        /\ out.map = [j \in DOMAIN aux.obj |->
                        IF aux.obj[j].null THEN Cell(Len(values.obj))
                        ELSE aux.obj[j]]

\* the mask's true entries, and the position of row i among them
Selected(mask) == {i \in DOMAIN mask.obj : ~mask.obj[i].null /\ mask.obj[i].v}
Rank(mask, i) == Cardinality({j \in Selected(mask) : j <= i})

\* C4: Filter keeps the column's name, returns as many rows as the mask has
\* true entries (a null entry selects nothing), keeps the selected rows in
\* input order, and carries exactly the input's sortedness metadata.
C4_FilterKeepsSortedness ==
    FilterDone =>
        /\ out.err = "none"
        /\ out.result.name = values.name
        /\ Len(out.result.obj) = Cardinality(Selected(aux))
        /\ \A i \in Selected(aux) :
               out.result.obj[Rank(aux, i)] = values.obj[i]
        /\ out.result.is_sorted = values.is_sorted
        /\ out.result.order = values.order
        /\ out.result.null_order = values.null_order

C4_Witness ==
    /\ FilterDone
    /\ values.is_sorted /\ values.order = "DESCENDING"
    /\ values.null_order = "AFTER"
    /\ null_count(aux.obj) > 0
    /\ Len(out.result.obj) = 1 /\ Len(values.obj) = MaxRows
    /\ out.result.is_sorted

\* Kleene any / all of a boolean column: TRUE, FALSE or null
KleeneAny(obj) ==
    IF TRUE \in NonNull(obj) THEN Cell(TRUE)
    ELSE IF null_count(obj) > 0 THEN NullBool ELSE Cell(FALSE)
KleeneAll(obj) ==
    IF FALSE \in NonNull(obj) THEN Cell(FALSE)
    ELSE IF null_count(obj) > 0 THEN NullBool ELSE Cell(TRUE)

\* C5: evaluating Any / All over a boolean column returns the Kleene
\* three-valued result: Any is True with a True present, null with no True
\* but a null, else False; All dually.
C5_KleeneAnyAll ==
    BooleanFunctionDone =>
        /\ out.err = "none"
        /\ out.result.obj =
               <<IF enode.name = "Any" THEN KleeneAny(values.obj)
                 ELSE KleeneAll(values.obj)>>

\* the closed set of reduction kinds the specification names
ClosedAggSet ==
    {"min", "max", "median", "nunique", "first", "last", "mean", "sum",
     "count", "std", "var"}

\* C6: constructing an Agg succeeds exactly for the names of the closed set,
\* with a reduction bound to the node, and every other name is rejected with
\* NotImplementedError.
C6_AggClosedSet ==
    AggConstructed =>
        IF enode.name \in ClosedAggSet
        THEN epc = "built" /\ out.err = "none" /\ enode.op \in Agg_methods
        ELSE epc = "rejected" /\ out.err = "NotImplementedError"

\* C7: in FRAME context an Agg of any supported kind over a column of any
\* length, an empty one included, returns a column of exactly one row, named
\* after the input column.
C7_AggOneRow ==
    (AggDone /\ context = "FRAME") =>
        /\ out.err = "none"
        /\ Len(out.result.obj) = 1
        /\ out.result.name = values.name


----------------------------------------------------------------------------
(* Logical-plan nodes: cudf_polars/dsl/ir.py.  A plan node is built by its *)
(* constructor (with the __post_init__ validation) from nodes built        *)
(* before; a top-level evaluate(cache={}) then runs the root's evaluate,   *)
(* each nested evaluate call being one frame of the call stack.            *)

ExprIdle ==
    /\ enode = [kind |-> "none", name |-> "", options |-> FALSE,
                op |-> "none"]
    /\ values = NoCol
    /\ aux = NoCol
    /\ context = "FRAME"
    /\ epc = "idle"
    /\ out = NoOut

\* a plan node object: its class, its Cache key, its child nodes and the
\* class of the expressions it holds
Node(kind, key, kids, opt) ==
    [kind |-> kind, key |-> key, kids |-> kids, opt |-> opt]

\* the Cache keys and the join kinds plans are built with
Keys == {1, 2}
PlanJoinKinds == {"inner", "cross"}

\* Join.__post_init__: the exception raised, if any
Join_post_init(how) ==
    IF how = "cross"
    THEN CtorRaised("NotImplementedError", "cross join not implemented", 0)
    ELSE CtorOk(0)

\* a cache lookup that never finds the key
Cache_has_never(c, key) ==
    FALSE

\* cache[self.key] succeeds (no KeyError)
Cache_has(c, key) ==
    key \in DOMAIN c

\* a dict assignment c[key] = value: the dict afterwards
setdefault_overwrite(c, key, value) ==
    [k \in DOMAIN c \cup {key} |-> IF k = key THEN value ELSE c[k]]

\* dict.setdefault(key, value): the dict afterwards
setdefault(c, key, value) ==
    IF key \in DOMAIN c THEN c ELSE c @@ (key :> value)

Top == stack[Len(stack)]
TopNode == nodes[Top.node]
Running(kind, k) ==
    /\ phase = "eval"
    /\ stack # <<>>
    /\ TopNode.kind = kind
    /\ Len(Top.got) = k

\* the running evaluate calls a child's evaluate
Call(c) ==
    /\ stack' = Append(stack, [node |-> c, got |-> <<>>])
    /\ UNCHANGED <<ret, err, phase>>

\* the running evaluate returns frame f to its caller
Return(f) ==
    /\ IF Len(stack) = 1
       THEN stack' = <<>> /\ ret' = f /\ phase' = "done"
       ELSE /\ stack' = [SubSeq(stack, 1, Len(stack) - 1)
                            EXCEPT ![Len(stack) - 1].got = Append(@, f)]
            /\ UNCHANGED <<ret, phase>>
    /\ UNCHANGED err

\* the running evaluate raises: the exception is in flight in its frame
Raise(e) ==
    /\ err' = e
    /\ phase' = "raise"
    /\ UNCHANGED <<stack, ret>>

\* a Cache.evaluate whose try statement encloses the child's evaluation and
\* catches every exception
Cache_except_all(where, e) ==
    TRUE

\* the try statement of Cache.evaluate: it encloses the lookup
\* cache[self.key] only and catches KeyError; the child is evaluated in the
\* handler
Cache_except(where, e) ==
    where = "try" /\ e = "KeyError"

\* whether the evaluate of a node of this class catches an exception its
\* child's evaluate raised: only Cache.evaluate has a try statement
Catches(kind, e) ==
    kind = "Cache" /\ Cache_except("handler", e)

\* a constructor returns the new node / raises
Built(node, c) ==
    /\ nodes' = Append(nodes, node)
    /\ ctor' = c
    /\ UNCHANGED <<phase, err>>
Rejected(c) ==
    /\ phase' = "rejected"
    /\ err' = c.err
    /\ ctor' = c
    /\ UNCHANGED nodes

CanBuild == phase = "build" /\ Len(nodes) < MaxNodes

ConstructDataFrameScan ==
    /\ CanBuild
    /\ Built(Node("DataFrameScan", 0, <<>>, "none"), CtorOk(0))
    /\ UNCHANGED <<args, stack, cache, ret, nframes, log>>
    /\ UNCHANGED evars
    /\ UNCHANGED nvars

\* PythonScan has neither __post_init__ nor evaluate
ConstructPythonScan ==
    /\ CanBuild
    /\ Built(Node("PythonScan", 0, <<>>, "none"), CtorOk(0))
    /\ UNCHANGED <<args, stack, cache, ret, nframes, log>>
    /\ UNCHANGED evars
    /\ UNCHANGED nvars

ConstructCache ==
    /\ CanBuild
    /\ \E k \in Keys, c \in DOMAIN nodes :
           Built(Node("Cache", k, <<c>>, "none"), CtorOk(0))
    /\ UNCHANGED <<args, stack, cache, ret, nframes, log>>
    /\ UNCHANGED evars
    /\ UNCHANGED nvars

ConstructJoin ==
    /\ CanBuild
    /\ \E l \in DOMAIN nodes, r \in DOMAIN nodes, how \in PlanJoinKinds :
           IF Join_post_init(how).err = "none"
           THEN Built(Node("Join", 0, <<l, r>>, how), Join_post_init(how))
           ELSE Rejected(Join_post_init(how))
    /\ UNCHANGED <<args, stack, cache, ret, nframes, log>>
    /\ UNCHANGED evars
    /\ UNCHANGED nvars

\* the top-level call root.evaluate(cache={}) on the node built last
StartEvaluate ==
    /\ phase = "build" /\ nodes # <<>>
    /\ phase' = "eval"
    /\ stack' = <<[node |-> Len(nodes), got |-> <<>>]>>
    /\ UNCHANGED <<nodes, args, ctor, cache, ret, err, nframes, log>>
    /\ UNCHANGED evars
    /\ UNCHANGED nvars

\* DataFrameScan.evaluate: a new frame
DataFrameScanEvaluate ==
    /\ Running("DataFrameScan", 0)
    /\ nframes' = nframes + 1
    /\ Return(nframes + 1)
    /\ UNCHANGED <<nodes, args, ctor, cache, log>>
    /\ UNCHANGED evars
    /\ UNCHANGED nvars

\* IR.evaluate, inherited by PythonScan
IREvaluate ==
    /\ Running("PythonScan", 0)
    /\ Raise("NotImplementedError")
    /\ UNCHANGED <<nodes, args, ctor, cache, nframes, log>>
    /\ UNCHANGED evars
    /\ UNCHANGED nvars

\* Cache.evaluate, up to the return or the call of self.value.evaluate
CacheEvaluate ==
    /\ Running("Cache", 0)
    /\ IF Cache_has(cache, TopNode.key)
       THEN /\ Return(cache[TopNode.key])
            /\ log' = Append(log, [op |-> "hit", node |-> Top.node,
                                   key |-> TopNode.key, frame |-> 0,
                                   ret |-> cache[TopNode.key]])
       ELSE /\ Call(TopNode.kids[1])
            /\ log' = Append(log, [op |-> "miss", node |-> Top.node,
                                   key |-> TopNode.key, frame |-> 0,
                                   ret |-> 0])
    /\ UNCHANGED <<nodes, args, ctor, cache, nframes>>
    /\ UNCHANGED evars
    /\ UNCHANGED nvars

\* an exception leaves the evaluate call it is in flight in: the call ends
\* without a return value and the exception is in flight in the caller, or
\* reaches the top-level caller; a Cache.evaluate that caught it would run
\* its handler (evaluate the child and store the frame)
Propagate ==
    /\ phase = "raise" /\ stack # <<>>
    /\ IF Len(stack) = 1
       THEN stack' = <<>> /\ phase' = "done" /\ UNCHANGED err
       ELSE LET caller == nodes[stack[Len(stack) - 1].node]
            IN  IF Catches(caller.kind, err)
                THEN /\ stack' = Append(SubSeq(stack, 1, Len(stack) - 1),
                                        [node |-> caller.kids[1],
                                         got |-> <<>>])
                     /\ err' = "none" /\ phase' = "eval"
                ELSE /\ stack' = SubSeq(stack, 1, Len(stack) - 1)
                     /\ UNCHANGED <<err, phase>>
    /\ UNCHANGED <<nodes, args, ctor, cache, ret, nframes, log>>
    /\ UNCHANGED evars
    /\ UNCHANGED nvars

\* Cache.evaluate, from the child's return: cache.setdefault(key, frame)
CacheStore ==
    /\ Running("Cache", 1)
    /\ cache' = setdefault(cache, TopNode.key, Top.got[1])
    /\ Return(cache'[TopNode.key])
    /\ log' = Append(log, [op |-> "store", node |-> Top.node,
                           key |-> TopNode.key, frame |-> Top.got[1],
                           ret |-> cache'[TopNode.key]])
    /\ UNCHANGED <<nodes, args, ctor, nframes>>
    /\ UNCHANGED evars
    /\ UNCHANGED nvars

\* Join.evaluate: self.left.evaluate, then self.right.evaluate
JoinEvaluate ==
    /\ \/ Running("Join", 0)
       \/ Running("Join", 1)
    /\ Call(TopNode.kids[Len(Top.got) + 1])
    /\ UNCHANGED <<nodes, args, ctor, cache, nframes, log>>
    /\ UNCHANGED evars
    /\ UNCHANGED nvars

\* Join.evaluate, from the right child's return: the joined frame
JoinFinish ==
    /\ Running("Join", 2)
    /\ nframes' = nframes + 1
    /\ Return(nframes + 1)
    /\ UNCHANGED <<nodes, args, ctor, cache, log>>
    /\ UNCHANGED evars
    /\ UNCHANGED nvars

Init ==
    /\ nodes = <<>>
    /\ args = NoArgs
    /\ ctor = CtorOk(0)
    /\ phase = "build"
    /\ stack = <<>>
    /\ cache = <<>>
    /\ ret = 0
    /\ err = "none"
    /\ nframes = 0
    /\ log = <<>>
    /\ ExprIdle
    /\ NodeIdle

Next ==
    \/ ConstructDataFrameScan
    \/ ConstructPythonScan
    \/ ConstructCache
    \/ ConstructJoin
    \/ StartEvaluate
    \/ DataFrameScanEvaluate
    \/ IREvaluate
    \/ Propagate
    \/ CacheEvaluate
    \/ CacheStore
    \/ JoinEvaluate
    \/ JoinFinish

Spec == Init /\ [][Next]_vars


----------------------------------------------------------------------------
(* Properties of the plan evaluator (checked under Spec) *)

\* the nodes below node n
RECURSIVE Below(_)
Below(n) ==
    UNION {{nodes[n].kids[i]} \cup Below(nodes[n].kids[i]) :
           i \in DOMAIN nodes[n].kids}

\* the plan under evaluation: the root and everything below it
PlanNodes ==
    IF phase \in {"eval", "raise", "done"}
    THEN {Len(nodes)} \cup Below(Len(nodes)) ELSE {}

CacheNodes(k) ==
    {n \in PlanNodes : nodes[n].kind = "Cache" /\ nodes[n].key = k}

\* a Cache node with key k lies inside the child of another one
NestedKey(k) ==
    \E c \in CacheNodes(k) : CacheNodes(k) \cap Below(c) # {}

Events(op, k) ==
    {i \in DOMAIN log : log[i].op = op /\ log[i].key = k}

\* per key: the child is evaluated at most once; that evaluation's frame is
\* the one stored; every other Cache.evaluate returns the stored frame
OncePerKey(k) ==
    /\ Cardinality(Events("miss", k)) <= 1
    /\ \A i \in Events("store", k) :
           log[i].ret = log[i].frame /\ cache[k] = log[i].frame
    /\ \A i \in Events("hit", k) :
           \E j \in Events("store", k) : j < i /\ log[i].ret = log[j].frame
    /\ (k \in DOMAIN cache) = (Events("store", k) # {})

\* C1 as stated: within one top-level evaluation, for every Cache key k the
\* wrapped child is evaluated at most once however many Cache nodes carry
\* k; the first Cache.evaluate for k evaluates the child and stores its
\* frame, every later one returns the stored frame.
C1_CacheOncePerKey ==
    \A k \in Keys : OncePerKey(k)

\* C1, amended: the same, for every key k none of whose Cache nodes lies
\* inside the child sub-plan of another Cache node with key k.
C1_CacheOnceUnnested ==
    \A k \in Keys : ~NestedKey(k) => OncePerKey(k)

C1_Witness ==
    /\ phase = "done" /\ err = "none"
    /\ \E k \in Keys :
           /\ ~NestedKey(k)
           /\ Cardinality(CacheNodes(k)) >= 2
           /\ Events("hit", k) # {}
           /\ Events("store", k) # {}

\* the Cache nodes whose evaluate is on the call stack
OnPath == {stack[i].node : i \in DOMAIN stack}

\* C19: an exception raised by a plan node's evaluate propagates unchanged
\* to the top-level caller: while it is in flight every step ends one more
\* evaluate call without a return value, no call is made again, no frame
\* is created and the cache is unchanged; no Cache node on the path has
\* stored an entry, and every cache entry was stored by a Cache node whose
\* child's evaluate had returned.
C19_FailureAborts ==
    /\ [](phase \in {"raise", "done"} /\ err # "none" =>
            /\ ret = 0
            /\ \A n \in OnPath : \A i \in DOMAIN log :
                   log[i].op = "store" => log[i].node # n
            /\ \A k \in DOMAIN cache : \E i \in Events("store", k) :
                   log[i].frame = cache[k])
    /\ [][phase = "raise" =>
            /\ err' = err /\ cache' = cache /\ ret' = ret
            /\ nframes' = nframes /\ log' = log
            /\ stack' = SubSeq(stack, 1, Len(stack) - 1)
            /\ phase' = IF Len(stack) = 1 THEN "done" ELSE "raise"]_vars

C19_Witness ==
    /\ phase = "done" /\ err = "NotImplementedError"
    /\ ret = 0 /\ stack = <<>>
    /\ \E n \in DOMAIN nodes, i \in DOMAIN log :
           /\ nodes[n].kind = "Cache" /\ log[i].op = "miss"
           /\ log[i].node = n /\ nodes[n].key \notin DOMAIN cache

\* C8: every unsupported construct is reported by a constructor: once the
\* plan is built, no evaluate call raises NotImplementedError.
C8_UnsupportedAtConstruction ==
    err = "NotImplementedError" => phase = "rejected"


----------------------------------------------------------------------------
(* GroupBy construction: GroupBy.check_agg and GroupBy.__post_init__ *)

\* an expression node object: its class, its name (the reduction of an Agg)
\* and its child expressions
E(kind, name, children) ==
    [kind |-> kind, name |-> name, children |-> children]

\* Expr.children: the child expression nodes of a node
children(e) ==
    e.children

ColX == E("Col", "x", <<>>)

\* the leaves: a column reference, a literal, a row count, and a node of a
\* class check_agg has no branch for
ExprLeaves ==
    {ColX, E("Literal", "1", <<>>), E("Len", "", <<>>),
     E("Window", "", <<>>)}

\* one more level of Cast, Agg and BinOp over a set of expressions
Grow(S) ==
    ExprLeaves
    \cup {E("Cast", "", <<e>>) : e \in S}
    \cup {E("Agg", "sum", <<e>>) : e \in S}
    \cup {E("BinOp", "+", <<ColX, e>>) : e \in S}

RECURSIVE ExprsOfHeight(_)
ExprsOfHeight(d) ==
    IF d = 0 THEN ExprLeaves ELSE Grow(ExprsOfHeight(d - 1))

\* an aggregation request is a NamedExpr around an expression
Named(e) == E("NamedExpr", "out", <<e>>)
Requests(d) == {Named(e) : e \in ExprsOfHeight(d)}

\* one request, or two of which one is of lower height
RequestLists ==
    {<<a>> : a \in Requests(MaxDepth)}
    \cup {<<a, b>> : a \in Requests(MaxDepth), b \in Requests(MaxDepth - 1)}
    \cup {<<b, a>> : a \in Requests(MaxDepth), b \in Requests(MaxDepth - 1)}

KeyLists == {<<ColX>>, <<ColX, E("Col", "y", <<>>)>>}

Depth(n) == [err |-> "none", msg |-> "", depth |-> n]
NoHandler == [err |-> "NotImplementedError", msg |-> "No handler", depth |-> 0]
Implode ==
    [err |-> "NotImplementedError", msg |-> "implode in groupby", depth |-> 0]

\* max(GroupBy.check_agg(child) for child in agg.children), plus add: the
\* first child that raises ends the generator
MaxOver(results, add) ==
    LET bad == {i \in DOMAIN results : results[i].err # "none"}
    IN  IF bad # {} THEN results[SetMin(bad)]
        ELSE Depth(add + SetMax({results[i].depth : i \in DOMAIN results}))

\* check_agg counting a Cast, BinOp or NamedExpr as one more level
RECURSIVE check_agg_levels(_)
check_agg_levels(agg) ==
    IF agg.kind \in {"BinOp", "Cast"}
    THEN MaxOver([i \in DOMAIN children(agg) |->
                    check_agg_levels(children(agg)[i])], 1)
    ELSE IF agg.kind = "NamedExpr"
    THEN MaxOver([i \in DOMAIN children(agg) |->
                    check_agg_levels(children(agg)[i])], 0)
    ELSE IF agg.kind = "Agg"
    THEN IF agg.name = "implode" THEN Implode
         ELSE MaxOver([i \in DOMAIN children(agg) |->
                         check_agg_levels(children(agg)[i])], 1)
    ELSE IF agg.kind \in {"Len", "Col", "Literal"}
    THEN Depth(0)
    ELSE NoHandler

\* GroupBy.check_agg(agg): the depth of nesting, or the exception raised
RECURSIVE check_agg(_)
check_agg(agg) ==
    IF agg.kind \in {"NamedExpr", "BinOp", "Cast"}
    THEN MaxOver([i \in DOMAIN children(agg) |->
                    check_agg(children(agg)[i])], 0)
    ELSE IF agg.kind = "Agg"
    THEN IF agg.name = "implode" THEN Implode
         ELSE MaxOver([i \in DOMAIN children(agg) |->
                         check_agg(children(agg)[i])], 1)
    ELSE IF agg.kind \in {"Len", "Col", "Literal"}
    THEN Depth(0)
    ELSE NoHandler

\* any(GroupBy.check_agg(a) > 1 for a in self.agg_requests): the requests
\* are checked in order up to the first that raises or is deeper than 1
CheckRequests(reqs) ==
    LET bad == {i \in DOMAIN reqs :
                    check_agg(reqs[i]).err # "none"
                    \/ check_agg(reqs[i]).depth > 1}
    IN  IF bad = {} THEN CtorOk(Len(reqs))
        ELSE IF check_agg(reqs[SetMin(bad)]).err # "none"
        THEN CtorRaised(check_agg(reqs[SetMin(bad)]).err,
                        check_agg(reqs[SetMin(bad)]).msg, SetMin(bad))
        ELSE CtorRaised("NotImplementedError",
                        "Nested aggregations in groupby", SetMin(bad))

\* Expr.collect_agg(depth=0): the aggregation info of a request
collect_agg(req) ==
    [request |-> req]

\* GroupBy.__post_init__ testing maintain_order after the requests
GroupBy_post_init_requests_first(a) ==
    IF CheckRequests(a.agg_requests).err # "none"
    THEN CheckRequests(a.agg_requests)
    ELSE IF a.maintain_order
    THEN CtorRaised("NotImplementedError", "Maintaining order in groupby",
                    Len(a.agg_requests))
    ELSE CheckRequests(a.agg_requests)

\* GroupBy.__post_init__: the outcome of the constructor
GroupBy_post_init(a) ==
    IF a.maintain_order
    THEN CtorRaised("NotImplementedError", "Maintaining order in groupby", 0)
    ELSE CheckRequests(a.agg_requests)

\* the call GroupBy(schema, df, agg_requests, keys, maintain_order, options)
\* on the child built before
GroupByConstruct ==
    /\ CanBuild /\ Len(nodes) = 1
    /\ IF GroupBy_post_init(args).err = "none"
       THEN Built(Node("GroupBy", 0, <<1>>,
                       [i \in DOMAIN args.agg_requests |->
                          collect_agg(args.agg_requests[i])]),
                  GroupBy_post_init(args))
       ELSE Rejected(GroupBy_post_init(args))
    /\ UNCHANGED <<args, stack, cache, ret, nframes, log>>
    /\ UNCHANGED evars
    /\ UNCHANGED nvars

\* GroupBy.evaluate, up to the call of self.df.evaluate
GroupByEvaluate ==
    /\ Running("GroupBy", 0)
    /\ Call(TopNode.kids[1])
    /\ UNCHANGED <<nodes, args, ctor, cache, nframes, log>>
    /\ UNCHANGED evars
    /\ UNCHANGED nvars

\* GroupBy.evaluate, from the child's return: the aggregated frame; with an
\* aggregation request, req.evaluate(result_subs, mapping=mapping) raises
\* TypeError (evaluate takes no keyword mapping)
GroupByAggregate ==
    /\ Running("GroupBy", 1)
    /\ IF TopNode.opt = <<>>
       THEN nframes' = nframes + 1 /\ Return(nframes + 1)
       ELSE Raise("TypeError") /\ UNCHANGED nframes
    /\ UNCHANGED <<nodes, args, ctor, cache, log>>
    /\ UNCHANGED evars
    /\ UNCHANGED nvars

\* the child plan is built; the GroupBy constructor call is still to be made
InitGroupBy ==
    /\ nodes = <<Node("DataFrameScan", 0, <<>>, "none")>>
    /\ args \in [agg_requests : RequestLists, keys : KeyLists,
                 maintain_order : BOOLEAN]
    /\ ctor = CtorOk(0)
    /\ phase = "build"
    /\ stack = <<>>
    /\ cache = <<>>
    /\ ret = 0
    /\ err = "none"
    /\ nframes = 0
    /\ log = <<>>
    /\ ExprIdle
    /\ NodeIdle

NextGroupBy ==
    \/ GroupByConstruct
    \/ StartEvaluate
    \/ GroupByEvaluate
    \/ DataFrameScanEvaluate
    \/ GroupByAggregate
    \/ Propagate

SpecGroupBy == InitGroupBy /\ [][NextGroupBy]_vars

----------------------------------------------------------------------------
(* Properties of GroupBy construction (checked under SpecGroupBy) *)

GroupByCalled == phase = "rejected" \/ Len(nodes) = 2

\* the largest number of Agg nodes on a path from the root to a leaf
RECURSIVE AggsOnPath(_)
AggsOnPath(e) ==
    (IF e.kind = "Agg" THEN 1 ELSE 0)
    + (IF e.children = <<>> THEN 0
       ELSE SetMax({AggsOnPath(e.children[i]) : i \in DOMAIN e.children}))

\* built only from column references, literals, row counts, casts, binary
\* operations and aggregations
RECURSIVE Plain(_)
Plain(e) ==
    /\ e.kind \in {"NamedExpr", "Cast", "BinOp", "Agg", "Col", "Literal", "Len"}
    /\ \A i \in DOMAIN e.children : Plain(e.children[i])

Reqs == {args.agg_requests[i] : i \in DOMAIN args.agg_requests}

C10_MaintainOrderRejected ==
    (GroupByCalled /\ args.maintain_order) =>
        /\ phase = "rejected"
        /\ err = "NotImplementedError"
        /\ ctor.msg = "Maintaining order in groupby"
        /\ ctor.inspected = 0
        /\ Len(nodes) = 1

C10_Witness ==
    /\ phase = "rejected"
    /\ args.maintain_order
    /\ Len(args.keys) = 2
    /\ \E r \in Reqs : ~Plain(r)
    /\ ctor.inspected = 0


----------------------------------------------------------------------------
(* Frames: cudf_polars.containers.DataFrame, a list of Columns (the        *)
(* scalars list is empty in every call of ir.py), and its pylibcudf table  *)

\* an optional value: None or a value
Nothing == [none |-> TRUE, v |-> 0]
Opt(v) == [none |-> FALSE, v |-> v]

\* DataFrame(columns, []): the columns are stored as given
DataFrame(columns) ==
    columns

\* DataFrame.table: the pylibcudf table of the columns' data
table(df) ==
    [i \in DOMAIN df |-> df[i].obj]

\* DataFrame.from_table(table, names)
from_table(t, names) ==
    [i \in DOMAIN t |-> Column(t[i], names[i])]

column_names(df) == [i \in DOMAIN df |-> df[i].name]
column_names_set(df) == {df[i].name : i \in DOMAIN df}

\* DataFrame.num_rows: the row count of the table
num_rows(df) ==
    IF df = <<>> THEN 0 ELSE Len(df[1].obj)

\* list.index(x): the first position holding x, from 0
index(names, x) ==
    SetMin({i \in DOMAIN names : names[i] = x}) - 1

\* DataFrame.with_sorted(like=, subset=): the sortedness of like's columns,
\* for the columns named in subset
DataFrame_with_sorted(df, like, subset) ==
    [i \in DOMAIN df |->
        IF df[i].name \in subset THEN with_sorted(df[i], like[i]) ELSE df[i]]

\* DataFrame.rename_columns(mapping): mapping given as two lists
rename_columns(df, old, new) ==
    [i \in DOMAIN df |->
        IF \E j \in DOMAIN old : old[j] = df[i].name
        THEN [df[i] EXCEPT !.name =
                 new[SetMin({j \in DOMAIN old : old[j] = df[i].name})]]
        ELSE df[i]]

\* the rows of a table, and the table of a list of rows
Rows(t) ==
    IF t = <<>> THEN <<>>
    ELSE [r \in DOMAIN t[1] |-> [c \in DOMAIN t |-> t[c][r]]]
FromRows(rows, ncols) ==
    [c \in 1..ncols |-> [r \in DOMAIN rows |-> rows[r][c]]]

RECURSIVE Concat(_)
Concat(seqs) ==
    IF seqs = <<>> THEN <<>> ELSE Head(seqs) \o Concat(Tail(seqs))

\* plc.stream_compaction.drop_nulls(table, indices, len(indices)): the rows
\* without a null in the columns at indices (from 0)
drop_nulls(t, indices) ==
    LET Keep(row) == \A i \in indices : ~row[i + 1].null
    IN  FromRows(SelectSeq(Rows(t), Keep), Len(t))

\* plc.lists.explode_outer(table, index): one row per element of the list
\* in column index; a null or empty list gives one row with a null
explode_outer(t, idx) ==
    LET Explode(row) ==
            IF row[idx + 1].null \/ row[idx + 1].v = <<>>
            THEN <<[row EXCEPT ![idx + 1] = NullInt]>>
            ELSE [k \in DOMAIN row[idx + 1].v |->
                     [row EXCEPT ![idx + 1] = Cell(row[idx + 1].v[k])]]
    IN  FromRows(Concat([r \in DOMAIN Rows(t) |-> Explode(Rows(t)[r])]),
                 Len(t))

\* insert a row into rows ordered by the key column, after its equals
RECURSIVE InsertRow(_, _, _)
InsertRow(rows, row, k) ==
    IF rows = <<>> THEN <<row>>
    ELSE IF CellLE(Head(rows)[k], row[k], "BEFORE")
    THEN <<Head(rows)>> \o InsertRow(Tail(rows), row, k)
    ELSE <<row>> \o rows

RECURSIVE SortRows(_, _)
SortRows(rows, k) ==
    IF rows = <<>> THEN <<>>
    ELSE InsertRow(SortRows(SubSeq(rows, 1, Len(rows) - 1), k),
                   rows[Len(rows)], k)

\* plc.merge.merge_sorted(tables, [index], [ASCENDING], [BEFORE]): the rows
\* of all tables in the order of the key column
merge_sorted(tables, idx) ==
    FromRows(SortRows(Concat([i \in DOMAIN tables |-> Rows(tables[i])]),
                      idx + 1),
             Len(tables[1]))

----------------------------------------------------------------------------
(* Scan and MapFunction: construction, then evaluation on given frames *)

\* what an evaluate call of a plan node leaves behind: the exception raised
\* ("none" if it returned), the frame returned, the branch taken and the
\* number of calls of the merge primitive
NodeRaised(e, m, calls) ==
    [err |-> e, msg |-> m, frame |-> <<>>, branch |-> "none",
     merge_calls |-> calls]
NodeReturned(df, branch, calls) ==
    [err |-> "none", msg |-> "", frame |-> df, branch |-> branch,
     merge_calls |-> calls]
NoRes == [err |-> "none"]

\* Scan.__post_init__ without the test of the source type
Scan_post_init_any_type(a) ==
    IF ~a.n_rows.none
    THEN CtorRaised("NotImplementedError", "row limit in scan", 0)
    ELSE CtorOk(0)

\* Scan.__post_init__
Scan_post_init(a) ==
    IF ~a.n_rows.none
    THEN CtorRaised("NotImplementedError", "row limit in scan", 0)
    ELSE IF a.typ \notin {"csv", "parquet"}
    THEN CtorRaised("NotImplementedError", "Unhandled scan type", 0)
    ELSE CtorOk(0)

\* DataFrame.with_columns(columns): a new frame with the columns appended
with_columns(df, columns) ==
    df \o columns

\* Literal: the value a literal node holds
Literal_value(e) ==
    CASE e.name = "1" -> 1
      [] e.name = "2" -> 2

\* Col.evaluate: df._column_map[name], the (last) column of that name
Col_evaluate(e, df) ==
    df[SetMax({i \in DOMAIN df : df[i].name = e.name})]

\* DataFrame.filter(mask): the rows whose mask entry is true, the columns
\* keeping their sortedness
DataFrame_filter(df, mask) ==
    [i \in DOMAIN df |->
        with_sorted(Column(apply_boolean_mask(df[i].obj, mask.obj),
                           df[i].name), df[i])]

\* plc.filling.sequence(size, init, step) with step 1
sequence(size, init) ==
    [i \in 1..size |-> Cell(init + i - 1)]

\* df.num_rows(): num_rows is an integer attribute (df.num_rows in
\* GroupBy.evaluate, Len.evaluate and Gather.evaluate), so calling it raises
num_rows_call(df) ==
    [err |-> "TypeError", msg |-> "'int' object is not callable",
     n |-> num_rows(df)]

\* the equality test of a column and a literal: null stays null
equal_to(obj, k) ==
    [i \in DOMAIN obj |->
        IF obj[i].null THEN NullBool ELSE Cell(obj[i].v = k)]

\* Scan.evaluate: the frame read is fr; the row index column is appended,
\* then the rows are filtered by the predicate (a test of a column against
\* a literal)
Scan_evaluate(a, fr) ==
    LET branch == IF a.typ = "csv" THEN "read_csv" ELSE "read_parquet"
        n == num_rows_call(fr)
        idx == set_sorted(Column(sequence(n.n, a.row_index.v[2]),
                                 a.row_index.v[1]),
                          TRUE, "ASCENDING", "AFTER")
        df == IF a.row_index.none THEN fr ELSE with_columns(fr, <<idx>>)
        mask == Column(equal_to(Col_evaluate(a.predicate.v.children[1],
                                             df).obj,
                                Literal_value(a.predicate.v.children[2])),
                       a.predicate.v.children[1].name)
    IN  IF ~a.n_rows.none
        THEN NodeRaised("AssertionError", "assert n_rows is None", 0)
        ELSE IF a.typ \notin {"csv", "parquet"}
        THEN NodeRaised("AssertionError", "assert_never", 0)
        ELSE IF ~a.row_index.none /\ n.err # "none"
        THEN NodeRaised(n.err, n.msg, 0)
        ELSE IF a.predicate.none THEN NodeReturned(df, branch, 0)
        ELSE NodeReturned(DataFrame_filter(df, mask), branch, 0)

\* MapFunction._NAMES
MapFunction_NAMES ==
    {"drop_nulls", "rechunk", "merge_sorted", "rename", "explode"}

\* MapFunction.__post_init__ without the test of the name
MapFunction_post_init_any_name(a) ==
    IF a.name = "explode" /\ Len(a.to_explode) > 1
    THEN CtorRaised("NotImplementedError",
                    "Explode with more than one column", 0)
    ELSE IF a.name = "merge_sorted" /\ a.df # "Union"
    THEN CtorRaised("AssertionError", "isinstance(self.df, Union)", 0)
    ELSE IF a.name = "merge_sorted" /\ a.key_column \notin a.schema
    THEN CtorRaised("ValueError", "Key column not found", 0)
    ELSE CtorOk(0)

\* MapFunction.__post_init__: a.df is the class of self.df, a.schema the
\* names of self.df.dfs[0].schema
MapFunction_post_init(a) ==
    IF a.name \notin MapFunction_NAMES
    THEN CtorRaised("NotImplementedError", "Unhandled map function", 0)
    ELSE IF a.name = "explode"
    THEN IF Len(a.to_explode) > 1
         THEN CtorRaised("NotImplementedError",
                         "Explode with more than one column", 0)
         ELSE CtorOk(0)
    ELSE IF a.name = "merge_sorted"
    THEN IF a.df # "Union"
         THEN CtorRaised("AssertionError", "isinstance(self.df, Union)", 0)
         ELSE IF a.key_column \notin a.schema
         THEN CtorRaised("ValueError", "Key column not found", 0)
         ELSE CtorOk(0)
    ELSE CtorOk(0)

\* the merge_sorted branch comparing only the number of columns
merge_sorted_evaluate_by_width(a, dfs) ==
    IF \E i \in DOMAIN dfs : Len(dfs[i]) # Len(dfs[1])
    THEN NodeRaised("ValueError",
                    "DataFrame shapes/column names don't match", 0)
    ELSE IF a.key_column \notin column_names_set(dfs[1])
    THEN NodeRaised("ValueError", "x not in list", 0)
    ELSE NodeReturned(
             DataFrame_with_sorted(
                 from_table(merge_sorted([i \in DOMAIN dfs |-> table(dfs[i])],
                                         index(column_names(dfs[1]),
                                               a.key_column)),
                            column_names(dfs[1])),
                 dfs[1], {a.key_column}),
             "merge_sorted", 1)

\* MapFunction.evaluate, merge_sorted branch: dfs are the evaluated inputs
\* of the Union
merge_sorted_evaluate(a, dfs) ==
    IF \E i \in DOMAIN dfs : column_names(dfs[i]) # column_names(dfs[1])
    THEN NodeRaised("ValueError",
                    "DataFrame shapes/column names don't match", 0)
    ELSE IF a.key_column \notin column_names_set(dfs[1])
    THEN NodeRaised("ValueError", "x not in list", 0)
    ELSE NodeReturned(
             DataFrame_with_sorted(
                 from_table(merge_sorted([i \in DOMAIN dfs |-> table(dfs[i])],
                                         index(column_names(dfs[1]),
                                               a.key_column)),
                            column_names(dfs[1])),
                 dfs[1], {a.key_column}),
             "merge_sorted", 1)

\* MapFunction.evaluate: dfs are the frames the children evaluate to
MapFunction_evaluate(a, dfs) ==
    IF a.name = "merge_sorted"
    THEN IF a.df # "Union"
         THEN NodeRaised("AssertionError", "isinstance(self.df, Union)", 0)
         ELSE merge_sorted_evaluate(a, dfs)
    ELSE IF a.name = "rechunk"
    THEN NodeReturned(dfs[1], "rechunk", 0)
    ELSE IF a.name = "drop_nulls"
    THEN NodeReturned(
             DataFrame_with_sorted(
                 from_table(
                     drop_nulls(table(dfs[1]),
                                {i - 1 : i \in {j \in DOMAIN dfs[1] :
                                    dfs[1][j].name \in a.subset}}),
                     column_names(dfs[1])),
                 dfs[1], column_names_set(dfs[1])),
             "drop_nulls", 0)
    ELSE IF a.name = "rename"
    THEN NodeReturned(rename_columns(dfs[1], a.old, a.new), "rename", 0)
    ELSE IF a.name = "explode"
    THEN IF Len(a.to_explode) # 1
         THEN NodeRaised("ValueError", "not enough values to unpack", 0)
         ELSE IF a.to_explode[1] \notin column_names_set(dfs[1])
         THEN NodeRaised("ValueError", "x not in list", 0)
         ELSE NodeReturned(
                  DataFrame_with_sorted(
                      from_table(
                          explode_outer(table(dfs[1]),
                                        index(column_names(dfs[1]),
                                              a.to_explode[1])),
                          column_names(dfs[1])),
                      dfs[1], column_names_set(dfs[1]) \ {a.to_explode[1]}),
                  "explode", 0)
    ELSE NodeRaised("AssertionError", "Should never be reached", 0)


\* the constructor of the node under study returns / raises
NodeBuilt(c) ==
    /\ ctor' = c
    /\ phase' = "built"
    /\ UNCHANGED err
NodeRejected(c) ==
    /\ ctor' = c
    /\ phase' = "rejected"
    /\ err' = c.err

\* the node's evaluate call ends with outcome r
NodeDone(r) ==
    /\ res' = r
    /\ err' = r.err
    /\ phase' = "done"

\* frames of one row per input whose cells all hold v
PieceNames == {<<"a", "b">>, <<"b", "a">>, <<"a">>}
Pieces ==
    {[i \in DOMAIN ns |-> Column(<<Cell(v)>>, ns[i])] :
        ns \in PieceNames, v \in {1, 2}}
PieceLists == UNION {[1..m -> Pieces] : m \in 1..MaxPieces}

\* frames with an integer column a and an integer column b
FramesAB ==
    UNION {{<<Column(a, "a"), Column(b, "b")>> :
                a \in [1..m -> {Cell(1), NullInt}],
                b \in [1..m -> {Cell(1), NullInt}]} : m \in 0..MaxRows}

\* frames with a list column a and an integer column b numbering the rows
NullList == [null |-> TRUE, v |-> <<>>]
FramesListA ==
    UNION {{<<Column(a, "a"), Column([r \in 1..m |-> Cell(10 * r)], "b")>> :
                a \in [1..m -> {Cell(<<>>), Cell(<<1, 2>>), NullList}]} :
           m \in 0..MaxRows}

ScanTypes == {"csv", "parquet", "ndjson", "ipc"}
\* row_index: None, or a (name, offset) pair; predicate: None, or b == 1
NoRowIndex == [none |-> TRUE, v |-> <<"", 0>>]
BEqualsOne ==
    E("BinOp", "==", <<E("Col", "b", <<>>), E("Literal", "1", <<>>)>>)
NoPredicate == [none |-> TRUE, v |-> BEqualsOne]
ScanArgs ==
    [kind : {"Scan"}, typ : ScanTypes,
     n_rows : {Nothing, Opt(0), Opt(1)},
     row_index : {NoRowIndex, Opt(<<"index", 0>>), Opt(<<"index", 10>>)},
     predicate : {NoPredicate, Opt(BEqualsOne)}]

MapArgs(name) ==
    [kind |-> "MapFunction", name |-> name, df |-> "Select",
     schema |-> {"a", "b"}, key_column |-> "a", to_explode |-> <<>>,
     subset |-> {}, old |-> <<>>, new |-> <<>>]

InitScan ==
    /\ args \in ScanArgs
    /\ frames \in {<<f>> : f \in FramesAB}

InitMergeSorted ==
    /\ args \in {[MapArgs("merge_sorted") EXCEPT !.df = d, !.key_column = k] :
                    d \in {"Union", "Select"}, k \in {"a", "b", "z"}}
    /\ frames \in PieceLists

InitExplode ==
    /\ args \in {[MapArgs("explode") EXCEPT !.to_explode = t] :
                    t \in {<<>>, <<"a">>, <<"a", "b">>}}
    /\ frames \in {<<f>> : f \in FramesListA}

InitDropNulls ==
    /\ args \in {[MapArgs("drop_nulls") EXCEPT !.subset = u] :
                    u \in {{"a"}, {"a", "b"}}}
    /\ frames \in {<<f>> : f \in FramesAB}

InitMapOther ==
    /\ args \in {[MapArgs(n) EXCEPT !.old = <<"a">>, !.new = <<"c">>] :
                    n \in {"rename", "rechunk", "unique", "melt"}}
    /\ frames \in {<<f>> : f \in FramesAB}

InitNode ==
    /\ \/ InitScan
       \/ InitMergeSorted
       \/ InitExplode
       \/ InitDropNulls
       \/ InitMapOther
    /\ nodes = <<>>
    /\ ctor = CtorOk(0)
    /\ phase = "build"
    /\ stack = <<>>
    /\ cache = <<>>
    /\ ret = 0
    /\ err = "none"
    /\ nframes = 0
    /\ log = <<>>
    /\ res = NoRes
    /\ ExprIdle

ConstructScan ==
    /\ phase = "build" /\ args.kind = "Scan"
    /\ IF Scan_post_init(args).err = "none"
       THEN NodeBuilt(Scan_post_init(args))
       ELSE NodeRejected(Scan_post_init(args))
    /\ UNCHANGED <<nodes, args, stack, cache, ret, nframes, log>>
    /\ UNCHANGED <<frames, res>>
    /\ UNCHANGED evars

ScanEvaluate ==
    /\ phase = "built" /\ args.kind = "Scan"
    /\ NodeDone(Scan_evaluate(args, frames[1]))
    /\ UNCHANGED <<nodes, args, ctor, stack, cache, ret, nframes, log>>
    /\ UNCHANGED frames
    /\ UNCHANGED evars

ConstructMapFunction ==
    /\ phase = "build" /\ args.kind = "MapFunction"
    /\ IF MapFunction_post_init(args).err = "none"
       THEN NodeBuilt(MapFunction_post_init(args))
       ELSE NodeRejected(MapFunction_post_init(args))
    /\ UNCHANGED <<nodes, args, stack, cache, ret, nframes, log>>
    /\ UNCHANGED <<frames, res>>
    /\ UNCHANGED evars

MapFunctionEvaluate ==
    /\ phase = "built" /\ args.kind = "MapFunction"
    /\ NodeDone(MapFunction_evaluate(args, frames))
    /\ UNCHANGED <<nodes, args, ctor, stack, cache, ret, nframes, log>>
    /\ UNCHANGED frames
    /\ UNCHANGED evars

NextNode ==
    \/ ConstructScan
    \/ ScanEvaluate
    \/ ConstructMapFunction
    \/ MapFunctionEvaluate

SpecNode == InitNode /\ [][NextNode]_vars

----------------------------------------------------------------------------
(* Properties of Scan and MapFunction (checked under SpecNode) *)

ScanCalled == args.kind = "Scan" /\ phase # "build"

\* C16: Scan construction is rejected with NotImplementedError when a row
\* limit is set or the source type is neither csv nor parquet, and accepted
\* otherwise; a constructed Scan evaluates with n_rows = None and a type in
\* {csv, parquet}: neither assertion of evaluate fails.
C16_ScanRejectsUnsupported ==
    ScanCalled =>
        /\ (~args.n_rows.none \/ args.typ \notin {"csv", "parquet"}) =>
               phase = "rejected" /\ err = "NotImplementedError"
        /\ (args.n_rows.none /\ args.typ \in {"csv", "parquet"}) =>
               phase # "rejected" /\ ctor.err = "none"
        /\ phase = "done" =>
               /\ args.n_rows.none /\ args.typ \in {"csv", "parquet"}
               /\ res.err # "AssertionError"
               /\ res.err = "none" =>
                     res.branch = IF args.typ = "csv" THEN "read_csv"
                                  ELSE "read_parquet"

C16_Witness ==
    /\ ScanCalled
    /\ args.n_rows.none /\ args.typ = "ndjson"
    /\ phase = "rejected" /\ ctor.msg = "Unhandled scan type"

MapCalled == args.kind = "MapFunction" /\ phase # "build"

\* C17: MapFunction construction succeeds only for the names drop_nulls,
\* rechunk, merge_sorted, rename, explode; any other name is rejected with
\* NotImplementedError, explode of more than one column with
\* NotImplementedError, merge_sorted over a Union whose first input's schema
\* lacks the key column with ValueError; evaluate never reaches its final
\* branch.
C17_MapFunctionNames ==
    MapCalled =>
        /\ phase # "rejected" =>
               args.name \in {"drop_nulls", "rechunk", "merge_sorted",
                              "rename", "explode"}
        /\ args.name \notin {"drop_nulls", "rechunk", "merge_sorted",
                             "rename", "explode"} =>
               phase = "rejected" /\ err = "NotImplementedError"
        /\ (args.name = "explode" /\ Len(args.to_explode) > 1) =>
               phase = "rejected" /\ err = "NotImplementedError"
        /\ (args.name = "merge_sorted" /\ args.df = "Union"
            /\ args.key_column \notin args.schema) =>
               phase = "rejected" /\ err = "ValueError"
        /\ phase = "done" =>
               /\ res.msg # "Should never be reached"
               /\ res.err = "none" => res.branch = args.name

C17_Witness ==
    /\ MapCalled
    /\ args.name = "merge_sorted" /\ args.df = "Union"
    /\ args.key_column = "z"
    /\ phase = "rejected" /\ ctor.msg = "Key column not found"

MergeSortedDone ==
    /\ args.kind = "MapFunction" /\ args.name = "merge_sorted"
    /\ phase = "done" /\ args.df = "Union"

NamesDiffer ==
    \E i \in DOMAIN frames :
        column_names(frames[i]) # column_names(frames[1])

\* C18: evaluating a merge_sorted MapFunction raises ValueError whenever
\* some input after the first has a column-name list different from the
\* first input's, and then the merge primitive is not called and no frame
\* is returned; with identical column-name lists that error is not raised.
C18_MergeSortedNames ==
    MergeSortedDone =>
        IF NamesDiffer
        THEN /\ res.err = "ValueError"
             /\ res.msg = "DataFrame shapes/column names don't match"
             /\ res.merge_calls = 0 /\ res.frame = <<>>
        ELSE res.msg # "DataFrame shapes/column names don't match"

C18_Witness ==
    /\ MergeSortedDone
    /\ Len(frames) = 2
    /\ column_names(frames[1]) = <<"a", "b">>
    /\ column_names(frames[2]) = <<"b", "a">>
    /\ res.err = "ValueError" /\ res.merge_calls = 0



----------------------------------------------------------------------------
\* Join: construction, the joiner table and evaluate on given child frames

\* libcudf's JoinNoneValue, the gather-map entry of a row without a partner:
\* the least 32-bit integer
JoinNoneValue == 0 - 2147483647 - 1

\* whether two key cells are equal (null_equality EQUAL: nulls match nulls)
CellEq(a, b, nulls_equal) ==
    IF a.null \/ b.null THEN a.null /\ b.null /\ nulls_equal ELSE a.v = b.v

\* whether row i of the left keys equals row j of the right keys
RowsMatch(lt, rt, i, j, nulls_equal) ==
    \A c \in DOMAIN lt : CellEq(lt[c][i], rt[c][j], nulls_equal)

NumRows(t) == IF t = <<>> THEN 0 ELSE Len(t[1])

\* the right rows matching left row i, ascending
Partners(lt, rt, i, nulls_equal) ==
    LET Hit(j) == RowsMatch(lt, rt, i, j, nulls_equal)
    IN  SelectSeq([j \in 1..NumRows(rt) |-> j], Hit)

\* the gather maps of a list of (left, right) row pairs, rows from 0
GatherMaps(pairs) ==
    [lg |-> [k \in DOMAIN pairs |-> Cell(pairs[k][1])],
     rg |-> [k \in DOMAIN pairs |-> Cell(pairs[k][2])]]

\* plc.join.inner_join: the pairs of matching rows
inner_join(lt, rt, nulls_equal) ==
    GatherMaps(Concat([i \in 1..NumRows(lt) |->
        LET P == Partners(lt, rt, i, nulls_equal)
        IN  [k \in DOMAIN P |-> <<i - 1, P[k] - 1>>]]))

\* plc.join.left_join: the matching pairs, and every left row without a
\* partner paired with JoinNoneValue
left_join(lt, rt, nulls_equal) ==
    GatherMaps(Concat([i \in 1..NumRows(lt) |->
        LET P == Partners(lt, rt, i, nulls_equal)
        IN  IF P = <<>> THEN << <<i - 1, JoinNoneValue>> >>
            ELSE [k \in DOMAIN P |-> <<i - 1, P[k] - 1>>]]))

\* plc.join.full_join: the pairs of left_join, and every right row without a
\* partner paired with JoinNoneValue
full_join(lt, rt, nulls_equal) ==
    LET Lonely(j) == \A i \in 1..NumRows(lt) :
                        ~RowsMatch(lt, rt, i, j, nulls_equal)
        R == SelectSeq([j \in 1..NumRows(rt) |-> j], Lonely)
        L == left_join(lt, rt, nulls_equal)
    IN  [lg |-> L.lg \o [k \in DOMAIN R |-> Cell(JoinNoneValue)],
         rg |-> L.rg \o [k \in DOMAIN R |-> Cell(R[k] - 1)]]

\* plc.join.left_semi_join: the left rows that have a partner
left_semi_join(lt, rt, nulls_equal) ==
    LET Hit(i) == Partners(lt, rt, i, nulls_equal) # <<>>
        L == SelectSeq([i \in 1..NumRows(lt) |-> i], Hit)
    IN  [k \in DOMAIN L |-> Cell(L[k] - 1)]

\* plc.join.left_anti_join: the left rows that have no partner
left_anti_join(lt, rt, nulls_equal) ==
    LET Miss(i) == Partners(lt, rt, i, nulls_equal) = <<>>
        L == SelectSeq([i \in 1..NumRows(lt) |-> i], Miss)
    IN  [k \in DOMAIN L |-> Cell(L[k] - 1)]

\* the join primitive named fn
join_fn(fn, lt, rt, nulls_equal) ==
    CASE fn = "inner_join" -> inner_join(lt, rt, nulls_equal)
      [] fn = "left_join" -> left_join(lt, rt, nulls_equal)
      [] fn = "full_join" -> full_join(lt, rt, nulls_equal)
      [] fn = "left_semi_join" ->
            [lg |-> left_semi_join(lt, rt, nulls_equal), rg |-> <<>>]
      [] fn = "left_anti_join" ->
            [lg |-> left_anti_join(lt, rt, nulls_equal), rg |-> <<>>]

\* plc.copying.gather on every column of a table
gather_table(t, map, policy) ==
    [c \in DOMAIN t |-> gather(t[c], map, policy)]

\* DataFrame.replace_columns(*columns): a new frame in which each given column
\* takes the place of the column of its name
replace_columns(df, columns) ==
    [i \in DOMAIN df |->
        IF \E j \in DOMAIN columns : columns[j].name = df[i].name
        THEN columns[SetMax({j \in DOMAIN columns :
                                columns[j].name = df[i].name})]
        ELSE df[i]]

\* DataFrame.discard_columns(names): a new frame without the named columns
discard_columns(df, names) ==
    LET Keep(c) == c.name \notin names
    IN  SelectSeq(df, Keep)

\* DataFrame.slice(zlice): the frame itself without a window, else the rows
\* from start (counted from the end when negative) up to start + length,
\* clipped to the frame
DataFrame_slice(df, zlice) ==
    IF zlice.none THEN df
    ELSE LET n == num_rows(df)
             start == IF zlice.v[1] < 0 THEN zlice.v[1] + n ELSE zlice.v[1]
             end == IF start + zlice.v[2] < n THEN start + zlice.v[2] ELSE n
         IN  [i \in DOMAIN df |->
                [df[i] EXCEPT !.obj = SubSeq(df[i].obj, start + 1, end)]]

\* plc.binaryop.binary_operation of a column and a scalar: null stays null
binary_operation(obj, k, op) ==
    [i \in DOMAIN obj |->
        IF obj[i].null THEN NullInt
        ELSE Cell(CASE op = "*" -> obj[i].v * k
                    [] op = "+" -> obj[i].v + k)]

\* BinOp.evaluate of a column and a literal: the result is a fresh column
\* under the name of the left operand
BinOp_evaluate(e, df) ==
    LET left == Col_evaluate(e.children[1], df)
    IN  Column(binary_operation(left.obj, Literal_value(e.children[2]),
                                e.name),
               left.name)

\* e.evaluate(df) for the key expressions of a join
Key_evaluate(e, df) ==
    IF e.kind = "Col" THEN Col_evaluate(e, df) ELSE BinOp_evaluate(e, df)

\* Join._joiners with a right-hand policy for the semi join
Join_joiners_semi_nullify(how) ==
    CASE how = "inner" ->
            [err |-> "none", fn |-> "inner_join",
             left_policy |-> "DONT_CHECK", right_policy |-> "DONT_CHECK"]
      [] how = "left" ->
            [err |-> "none", fn |-> "left_join",
             left_policy |-> "DONT_CHECK", right_policy |-> "NULLIFY"]
      [] how = "outer" ->
            [err |-> "none", fn |-> "full_join",
             left_policy |-> "NULLIFY", right_policy |-> "NULLIFY"]
      [] how = "leftsemi" ->
            [err |-> "none", fn |-> "left_semi_join",
             left_policy |-> "DONT_CHECK", right_policy |-> "NULLIFY"]
      [] how = "leftanti" ->
            [err |-> "none", fn |-> "left_anti_join",
             left_policy |-> "DONT_CHECK", right_policy |-> "None"]
      [] OTHER ->
            [err |-> "AssertionError", fn |-> "none",
             left_policy |-> "None", right_policy |-> "None"]

\* Join._joiners(how): the join primitive and the two gather policies
Join_joiners(how) ==
    CASE how = "inner" ->
            [err |-> "none", fn |-> "inner_join",
             left_policy |-> "DONT_CHECK", right_policy |-> "DONT_CHECK"]
      [] how = "left" ->
            [err |-> "none", fn |-> "left_join",
             left_policy |-> "DONT_CHECK", right_policy |-> "NULLIFY"]
      [] how = "outer" ->
            [err |-> "none", fn |-> "full_join",
             left_policy |-> "NULLIFY", right_policy |-> "NULLIFY"]
      [] how = "leftsemi" ->
            [err |-> "none", fn |-> "left_semi_join",
             left_policy |-> "DONT_CHECK", right_policy |-> "None"]
      [] how = "leftanti" ->
            [err |-> "none", fn |-> "left_anti_join",
             left_policy |-> "DONT_CHECK", right_policy |-> "None"]
      [] OTHER ->
            [err |-> "AssertionError", fn |-> "none",
             left_policy |-> "None", right_policy |-> "None"]

\* the outcome of Join.evaluate: the frame, the primitive that ran and the
\* policies of the gathers that ran ("None": no gather of that side)
JoinRaised(e) ==
    [err |-> e, msg |-> "", frame |-> <<>>, fn |-> "none",
     left_policy |-> "None", right_policy |-> "None"]
JoinReturned(df, j, right_gathered) ==
    [err |-> "none", msg |-> "", frame |-> df, fn |-> j.fn,
     left_policy |-> j.left_policy,
     right_policy |-> IF right_gathered THEN j.right_policy ELSE "None"]

\* the rename of the right columns whose names the left frame has
suffixed(right, left, suffix) ==
    [i \in DOMAIN right |->
        IF right[i].name \in column_names_set(left)
        THEN [right[i] EXCEPT !.name = right[i].name \o suffix]
        ELSE right[i]]

\* Join.evaluate after the two children returned left0 and right0, the
\* result left unsliced; for a coalescing outer join the frames that
\* left.replace_columns(...) and right.discard_columns(...) return are not
\* assigned, so left and right stay as gathered
Join_evaluate_result(a, left0, right0) ==
    LET left_on == DataFrame([i \in DOMAIN a.left_on |->
                                 Key_evaluate(a.left_on[i], left0)])
        right_on == DataFrame([i \in DOMAIN a.right_on |->
                                  Key_evaluate(a.right_on[i], right0)])
        suffix == IF a.suffix.none THEN "_right" ELSE a.suffix.v
        j == Join_joiners(a.how)
        g == join_fn(j.fn, table(left_on), table(right_on), a.join_nulls)
    IN  IF j.err # "none" THEN JoinRaised(j.err)
        ELSE IF j.right_policy = "None"
        THEN LET left == replace_columns(left0, left_on)
                 t == gather_table(table(left), g.lg, j.left_policy)
             IN  JoinReturned(from_table(t, column_names(left)), j, FALSE)
        ELSE LET left1 == replace_columns(left0, left_on)
                 right1 == replace_columns(right0, right_on)
                 right2 == IF a.coalesce /\ a.how # "outer"
                           THEN discard_columns(right1,
                                                column_names_set(right_on))
                           ELSE right1
                 left == from_table(
                             gather_table(table(left1), g.lg, j.left_policy),
                             column_names(left1))
                 right == from_table(
                             gather_table(table(right2), g.rg,
                                          j.right_policy),
                             column_names(right2))
             IN  JoinReturned(
                     with_columns(left, suffixed(right, left, suffix)),
                     j, TRUE)

\* Join.evaluate returning the result without the row window
Join_evaluate_unsliced(a, left0, right0) ==
    Join_evaluate_result(a, left0, right0)

\* Join.evaluate after the two children returned left0 and right0
Join_evaluate(a, left0, right0) ==
    LET r == Join_evaluate_result(a, left0, right0)
    IN  IF r.err # "none" THEN r
        ELSE [r EXCEPT !.frame = DataFrame_slice(r.frame, a.zlice)]

\* the inputs: a left frame of a key column a and a column b that numbers
\* the rows, a right frame of a key column a and a column d that numbers
\* the rows
LeftKeyObjs == SeqsUpTo({Cell(1), Cell(2), NullInt}, MaxRows)
RightKeyObjs == SeqsUpTo({Cell(2), NullInt}, MaxRows)
LeftFrame(k) ==
    DataFrame(<<Column(k, "a"),
                Column([i \in DOMAIN k |-> Cell(10 * i)], "b")>>)
RightFrame(k) ==
    DataFrame(<<Column(k, "a"),
                Column([i \in DOMAIN k |-> Cell(100 * i)], "d")>>)
ColA == E("Col", "a", <<>>)
TwiceA == E("BinOp", "*", <<ColA, E("Literal", "2", <<>>)>>)
JoinKinds == {"inner", "left", "outer", "leftsemi", "leftanti", "cross"}
\* zlice: None, or a (start, length) pair
NoSlice == [none |-> TRUE, v |-> <<0, 0>>]
Windows == {NoSlice, Opt(<<0, 1>>)}
\* suffix: None, or a string
NoSuffix == [none |-> TRUE, v |-> ""]
Suffixes == {NoSuffix, Opt("_x")}
JoinArgs ==
    {[kind |-> "Join", left_on |-> <<l>>, right_on |-> <<ColA>>,
      how |-> h, join_nulls |-> n, zlice |-> z, suffix |-> x,
      coalesce |-> c] :
        l \in {ColA, TwiceA}, h \in JoinKinds, n \in BOOLEAN, z \in Windows,
        c \in BOOLEAN, x \in Suffixes}

InitJoin ==
    /\ args \in JoinArgs
    /\ frames \in {<<LeftFrame(l), RightFrame(r)>> :
                      l \in LeftKeyObjs, r \in RightKeyObjs}
    /\ nodes = <<>>
    /\ ctor = CtorOk(0)
    /\ phase = "build"
    /\ stack = <<>>
    /\ cache = <<>>
    /\ ret = 0
    /\ err = "none"
    /\ nframes = 0
    /\ log = <<>>
    /\ res = NoRes
    /\ ExprIdle

\* Join(...): the constructor call
JoinNew ==
    /\ phase = "build" /\ args.kind = "Join"
    /\ IF Join_post_init(args.how).err = "none"
       THEN NodeBuilt(Join_post_init(args.how))
       ELSE NodeRejected(Join_post_init(args.how))
    /\ UNCHANGED <<nodes, args, stack, cache, ret, nframes, log>>
    /\ UNCHANGED <<frames, res>>
    /\ UNCHANGED evars

\* Join.evaluate on the frames its children returned
JoinRun ==
    /\ phase = "built" /\ args.kind = "Join"
    /\ NodeDone(Join_evaluate(args, frames[1], frames[2]))
    /\ UNCHANGED <<nodes, args, ctor, stack, cache, ret, nframes, log>>
    /\ UNCHANGED frames
    /\ UNCHANGED evars

NextJoin ==
    \/ JoinNew
    \/ JoinRun

SpecJoin == InitJoin /\ [][NextJoin]_vars


\* ---- claims about Join, under SpecJoin ----

JoinCalled == args.kind = "Join" /\ phase \in {"built", "rejected", "done"}
JoinDone == args.kind = "Join" /\ phase = "done"

JoinPrimitives ==
    {"inner_join", "left_join", "full_join", "left_semi_join",
     "left_anti_join"}

C13_SliceRejected ==
    JoinCalled /\ ~args.zlice.none =>
        (phase = "done" => res.err # "none")

\* the first k elements of a sequence, all of it when shorter
Prefix(q, k) == SubSeq(q, 1, IF k < Len(q) THEN k ELSE Len(q))

\* C13, amended: a Join whose options carry a row window (start 0) is
\* accepted at construction unless its kind is "cross", and evaluate returns
\* the columns of the join result without the window cut to the first
\* `length` rows
C13_SliceApplied ==
    JoinCalled /\ ~args.zlice.none /\ args.how # "cross" =>
        /\ phase \in {"built", "done"}
        /\ phase = "done" =>
              LET full == Join_evaluate([args EXCEPT !.zlice = NoSlice],
                                        frames[1], frames[2]).frame
              IN  /\ res.err = "none"
                  /\ num_rows(res.frame) <= args.zlice.v[2]
                  /\ Len(res.frame) = Len(full)
                  /\ \A c \in DOMAIN full :
                        /\ res.frame[c].name = full[c].name
                        /\ res.frame[c].obj =
                              Prefix(full[c].obj, args.zlice.v[2])

C13_Witness ==
    /\ JoinDone
    /\ ~args.zlice.none
    /\ res.err = "none"
    /\ num_rows(res.frame) = 1
    /\ num_rows(Join_evaluate([args EXCEPT !.zlice = NoSlice],
                              frames[1], frames[2]).frame) > 1

\* whether row r of frame df equals row i of frame of, column by column
SameRow(df, r, of, i) ==
    \A c \in DOMAIN of : df[c].obj[r] = of[c].obj[i]

\* C14: the result of a leftsemi or leftanti Join has the left frame's
\* column names in order, and each of its rows is a row of the left frame
C14_SemiAntiLeftRows ==
    JoinDone /\ args.how \in {"leftsemi", "leftanti"} =>
        /\ res.err = "none"
        /\ column_names(res.frame) = column_names(frames[1])
        /\ \A r \in 1..num_rows(res.frame) :
              \E i \in 1..num_rows(frames[1]) :
                  SameRow(res.frame, r, frames[1], i)

\* the left rows whose key has no partner among the right keys
Unmatched(a, left0, right0) ==
    LET lk == <<Key_evaluate(a.left_on[1], left0).obj>>
        rk == <<Key_evaluate(a.right_on[1], right0).obj>>
    IN  {i \in 1..num_rows(left0) :
            \A j \in 1..num_rows(right0) :
                ~RowsMatch(lk, rk, i, j, a.join_nulls)}

\* C15: in the result of a left Join without a row window every row of the
\* left frame appears; a result row that comes from a left row (told by its
\* row number in column b) without a partner is null in all columns of the
\* right side; the left gather runs under DONT_CHECK, the right under NULLIFY
C15_LeftJoin ==
    JoinDone /\ args.how = "left" /\ args.zlice.none =>
        /\ res.err = "none"
        /\ res.left_policy = "DONT_CHECK"
        /\ res.right_policy = "NULLIFY"
        /\ \A i \in 1..num_rows(frames[1]) :
              \E r \in 1..num_rows(res.frame) :
                  SameRow(res.frame, r, frames[1], i)
        /\ \A r \in 1..num_rows(res.frame) :
              \A i \in Unmatched(args, frames[1], frames[2]) :
                  res.frame[2].obj[r] = frames[1][2].obj[i] =>
                      \A c \in (Len(frames[1]) + 1)..Len(res.frame) :
                          res.frame[c].obj[r].null


----------------------------------------------------------------------------
\* GroupBy, Select, HStack and HConcat evaluated on given child frames

\* the one element of a set of one element
Only(S) == CHOOSE x \in S : TRUE

\* e.evaluate(df) in FRAME context for column references, binary operations
\* with a literal, aggregations and filters of columns
evaluate(e, df) ==
    CASE e.kind = "Col" -> Returned(Col_evaluate(e, df))
      [] e.kind = "BinOp" -> Returned(BinOp_evaluate(e, df))
      [] e.kind = "Agg" ->
            IF Agg_init(e.name, FALSE).err # "none"
            THEN Raised(Agg_init(e.name, FALSE).err)
            ELSE Only(Agg_evaluate(Agg_init(e.name, FALSE).node,
                                   Col_evaluate(e.children[1], df), 0,
                                   "FRAME"))
      [] e.kind = "Filter" ->
            Filter_evaluate(Col_evaluate(e.children[1], df),
                            Col_evaluate(e.children[2], df))
      [] e.kind = "NamedExpr" ->
            Returned(Column(Key_evaluate(e.children[1], df).obj, e.name))

\* [e.evaluate(df) for e in exprs]: the columns, or the first exception
evaluate_all(exprs, df) ==
    LET r == [i \in DOMAIN exprs |-> evaluate(exprs[i], df)]
        bad == {i \in DOMAIN r : r[i].err # "none"}
    IN  IF bad # {} THEN [err |-> r[SetMin(bad)].err, columns |-> <<>>]
        ELSE [err |-> "none", columns |-> [i \in DOMAIN r |-> r[i].result]]

\* Select.evaluate after the child returned df0: each common sub-expression
\* is added to the frame, then the projection is evaluated
RECURSIVE Select_cse(_, _)
Select_cse(cse, df) ==
    IF cse = <<>> THEN [err |-> "none", df |-> df]
    ELSE LET r == evaluate(Head(cse), df)
         IN  IF r.err # "none" THEN [err |-> r.err, df |-> df]
             ELSE Select_cse(Tail(cse), with_columns(df, <<r.result>>))

\* Select.evaluate returning the projection next to the frame it was
\* evaluated against
Select_evaluate_keep_frame(a, df0) ==
    LET c == Select_cse(a.cse, df0)
        r == evaluate_all(a.expr, c.df)
    IN  IF c.err # "none" THEN NodeRaised(c.err, "", 0)
        ELSE IF r.err # "none" THEN NodeRaised(r.err, "", 0)
        ELSE NodeReturned(with_columns(c.df, r.columns), "Select", 0)

Select_evaluate(a, df0) ==
    LET c == Select_cse(a.cse, df0)
        r == evaluate_all(a.expr, c.df)
    IN  IF c.err # "none" THEN NodeRaised(c.err, "", 0)
        ELSE IF r.err # "none" THEN NodeRaised(r.err, "", 0)
        ELSE NodeReturned(DataFrame(r.columns), "Select", 0)

\* HStack.evaluate after the child returned df
HStack_evaluate(a, df) ==
    LET r == evaluate_all(a.columns, df)
    IN  IF r.err # "none" THEN NodeRaised(r.err, "", 0)
        ELSE NodeReturned(with_columns(df, r.columns), "HStack", 0)

\* HConcat.evaluate after the children returned dfs: zip(*...) gives one
\* entry per child, the child's list of columns
HConcat_evaluate(dfs) ==
    NodeReturned(DataFrame([i \in DOMAIN dfs |-> dfs[i]]), "HConcat", 0)

\* ExtContext.evaluate without the names of the earlier extra contexts
RECURSIVE ExtContext_extra_base_names(_, _, _)
ExtContext_extra_base_names(df, names, extras) ==
    IF extras = <<>> THEN df
    ELSE ExtContext_extra_base_names(
             with_columns(df, discard_columns(Head(extras), names)),
             names, Tail(extras))

ExtContext_evaluate_base_names(dfs) ==
    NodeReturned(ExtContext_extra_base_names(Head(dfs),
                                             column_names_set(Head(dfs)),
                                             Tail(dfs)),
                 "ExtContext", 0)

\* the loop of ExtContext.evaluate over the frames of the extra contexts
RECURSIVE ExtContext_extra(_, _, _)
ExtContext_extra(df, names, extras) ==
    IF extras = <<>> THEN df
    ELSE LET extra == discard_columns(Head(extras), names)
         IN  ExtContext_extra(with_columns(df, extra),
                              names \cup column_names_set(extra),
                              Tail(extras))

\* ExtContext.evaluate after the children returned dfs, the base frame
\* first
ExtContext_evaluate(dfs) ==
    NodeReturned(ExtContext_extra(Head(dfs), column_names_set(Head(dfs)),
                                  Tail(dfs)),
                 "ExtContext", 0)

\* a list without the repetitions of its elements
RECURSIVE Dedup(_)
Dedup(q) ==
    IF q = <<>> THEN <<>>
    ELSE LET rest == Dedup(SubSeq(q, 1, Len(q) - 1))
             x == q[Len(q)]
         IN  IF \E i \in DOMAIN rest : rest[i] = x THEN rest
             ELSE Append(rest, x)

\* plc.groupby.GroupBy(keys, null_handling=INCLUDE).aggregate: the group
\* keys, one row per distinct key tuple, a null being a key value
group_keys(t) ==
    FromRows(Dedup(Rows(t)), Len(t))

\* req.evaluate(result_subs, mapping=mapping): evaluate takes df and the
\* keyword context only
evaluate_mapping(req, df) ==
    Raised("TypeError")

\* GroupBy.evaluate after the child returned df
GroupBy_evaluate(a, df) ==
    LET keys == [i \in DOMAIN a.keys |-> Key_evaluate(a.keys[i], df)]
        gk == group_keys([i \in DOMAIN keys |-> keys[i].obj])
        result_keys == [i \in DOMAIN keys |-> Column(gk[i], keys[i].name)]
        results == [i \in DOMAIN a.agg_requests |->
                       evaluate_mapping(a.agg_requests[i], df)]
        bad == {i \in DOMAIN results : results[i].err # "none"}
    IN  IF bad # {}
        THEN NodeRaised(results[SetMin(bad)].err,
                        "unexpected keyword argument 'mapping'", 0)
        ELSE NodeReturned(
                 DataFrame(result_keys
                           \o [i \in DOMAIN results |-> results[i].result]),
                 "GroupBy", 0)

\* the inputs: a child frame of an integer column a and a boolean column m
KeyCells == {Cell(1), Cell(2), NullInt}
MaskCells == {[null |-> FALSE, v |-> TRUE], [null |-> FALSE, v |-> FALSE]}
ChildFrames ==
    UNION {{DataFrame(<<Column(k, "a"), Column(m, "m")>>) :
               k \in [1..n -> KeyCells], m \in [1..n -> MaskCells]} :
           n \in 0..MaxRows}
SideFrames ==
    {DataFrame(<<Column([i \in 1..n |-> Cell(100 * i)], "d"),
                 Column([i \in 1..n |-> Cell(200 * i)], "e")>>) :
        n \in 0..MaxRows}
SumA == E("Agg", "sum", <<ColA>>)
FilterA == E("Filter", "", <<ColA, E("Col", "m", <<>>)>>)
Projections == {ColA, TwiceA, SumA, FilterA}
ProjectionLists ==
    {<<e>> : e \in Projections}
    \cup {<<e, f>> : e \in Projections, f \in Projections}

\* common sub-expressions: t1 = a * 2 and t2 = t1 * 2
T1 == E("NamedExpr", "t1", <<TwiceA>>)
T2 == E("NamedExpr", "t2",
        <<E("BinOp", "*", <<E("Col", "t1", <<>>), E("Literal", "2", <<>>)>>)>>)
CseLists == {<<>>, <<T1>>, <<T1, T2>>}
\* the projections a plan with these common sub-expressions can hold
SelectLists(cse) ==
    LET P == Projections \cup {E("Col", cse[i].name, <<>>) : i \in DOMAIN cse}
    IN  {<<e>> : e \in P} \cup {<<e, f>> : e \in P, f \in P}

\* extra contexts: frames whose column names overlap each other and the
\* base frame (d, e)
ExtraNames == {<<"d", "x">>, <<"x", "y">>, <<"y", "e">>, <<"x">>}
ExtraFrames ==
    {DataFrame([i \in DOMAIN ns |-> Column([r \in 1..n |-> Cell(v)], ns[i])]) :
        ns \in ExtraNames, v \in {1, 2}, n \in 0..MaxRows}

InitSelect ==
    /\ args \in UNION {{[kind |-> "Select", cse |-> c, expr |-> x] :
                           x \in SelectLists(c)} : c \in CseLists}
    /\ frames \in {<<f>> : f \in ChildFrames}
    /\ phase = "built"

InitHStack ==
    /\ args \in {[kind |-> "HStack", columns |-> x] : x \in ProjectionLists}
    /\ frames \in {<<f>> : f \in ChildFrames}
    /\ phase = "built"

InitHConcat ==
    /\ args = [kind |-> "HConcat"]
    /\ frames \in {<<f, g>> : f \in ChildFrames, g \in SideFrames}
    /\ phase = "built"

InitGroupByFrame ==
    /\ args \in {[kind |-> "GroupBy", keys |-> <<ColA>>, agg_requests |-> r,
                  maintain_order |-> FALSE] :
                    r \in {<<>>, <<Named(SumA)>>}}
    /\ frames \in {<<f>> : f \in ChildFrames}
    /\ phase = "build"

InitExtContext ==
    /\ args = [kind |-> "ExtContext"]
    /\ frames \in {fs \in {<<f>> : f \in SideFrames}
                         \cup {<<f, g>> : f \in SideFrames, g \in ExtraFrames}
                         \cup {<<f, g, h>> : f \in SideFrames,
                                             g \in ExtraFrames,
                                             h \in ExtraFrames} :
                  \A k \in DOMAIN fs : num_rows(fs[k]) = num_rows(fs[1])}
    /\ phase = "built"

InitFrame ==
    /\ \/ InitSelect
       \/ InitHStack
       \/ InitHConcat
       \/ InitExtContext
       \/ InitGroupByFrame
    /\ nodes = <<>>
    /\ ctor = CtorOk(0)
    /\ stack = <<>>
    /\ cache = <<>>
    /\ ret = 0
    /\ err = "none"
    /\ nframes = 0
    /\ log = <<>>
    /\ res = NoRes
    /\ ExprIdle

\* Select.evaluate on the frame its child returned
SelectRun ==
    /\ phase = "built" /\ args.kind = "Select"
    /\ NodeDone(Select_evaluate(args, frames[1]))
    /\ UNCHANGED <<nodes, args, ctor, stack, cache, ret, nframes, log>>
    /\ UNCHANGED frames
    /\ UNCHANGED evars

\* HStack.evaluate on the frame its child returned
HStackRun ==
    /\ phase = "built" /\ args.kind = "HStack"
    /\ NodeDone(HStack_evaluate(args, frames[1]))
    /\ UNCHANGED <<nodes, args, ctor, stack, cache, ret, nframes, log>>
    /\ UNCHANGED frames
    /\ UNCHANGED evars

\* HConcat.evaluate on the frames its children returned
HConcatRun ==
    /\ phase = "built" /\ args.kind = "HConcat"
    /\ NodeDone(HConcat_evaluate(frames))
    /\ UNCHANGED <<nodes, args, ctor, stack, cache, ret, nframes, log>>
    /\ UNCHANGED frames
    /\ UNCHANGED evars

\* ExtContext.evaluate on the frames its children returned
ExtContextRun ==
    /\ phase = "built" /\ args.kind = "ExtContext"
    /\ NodeDone(ExtContext_evaluate(frames))
    /\ UNCHANGED <<nodes, args, ctor, stack, cache, ret, nframes, log>>
    /\ UNCHANGED frames
    /\ UNCHANGED evars

\* GroupBy(...): the constructor call
GroupByNew ==
    /\ phase = "build" /\ args.kind = "GroupBy"
    /\ IF GroupBy_post_init(args).err = "none"
       THEN NodeBuilt(GroupBy_post_init(args))
       ELSE NodeRejected(GroupBy_post_init(args))
    /\ UNCHANGED <<nodes, args, stack, cache, ret, nframes, log>>
    /\ UNCHANGED <<frames, res>>
    /\ UNCHANGED evars

\* GroupBy.evaluate on the frame its child returned
GroupByRun ==
    /\ phase = "built" /\ args.kind = "GroupBy"
    /\ NodeDone(GroupBy_evaluate(args, frames[1]))
    /\ UNCHANGED <<nodes, args, ctor, stack, cache, ret, nframes, log>>
    /\ UNCHANGED frames
    /\ UNCHANGED evars

NextFrame ==
    \/ SelectRun
    \/ HStackRun
    \/ HConcatRun
    \/ ExtContextRun
    \/ GroupByNew
    \/ GroupByRun

SpecFrame == InitFrame /\ [][NextFrame]_vars

\* ---- claims about the frames nodes return, under SpecFrame ----

GroupByDone == args.kind = "GroupBy" /\ phase = "done"

\* the rows of the key column a of the input, as a set
KeyTuples(df) == {df[1].obj[i] : i \in 1..num_rows(df)}

\* C11: GroupBy.evaluate returns a frame whose columns are one per key,
\* named after the key, then one per aggregation request; the rows of the
\* key column are the distinct keys of the input, each once, a null being a
\* key of its own; an input of no rows gives no groups and no error
C11_GroupByFrame ==
    GroupByDone =>
        /\ res.err = "none"
        /\ Len(res.frame) = Len(args.keys) + Len(args.agg_requests)
        /\ res.frame[1].name = "a"
        /\ {res.frame[1].obj[i] : i \in 1..num_rows(res.frame)}
              = KeyTuples(frames[1])
        /\ num_rows(res.frame) = Cardinality(KeyTuples(frames[1]))
        /\ num_rows(frames[1]) = 0 => num_rows(res.frame) = 0

\* whether all members of a frame are columns of one row count
OneRowCount(df) ==
    \A i \in DOMAIN df : Len(df[i].obj) = Len(df[1].obj)

\* C20: every frame a node's evaluate returns has columns of one row count:
\* a Select, HStack or GroupBy returns such a frame; an HConcat returns the
\* columns of its children, all of one row count
C20_FrameInvariant ==
    phase = "done" /\ res.err = "none" =>
        /\ args.kind = "HConcat" =>
              Len(res.frame) = Len(frames[1]) + Len(frames[2])
        /\ OneRowCount(res.frame)


----------------------------------------------------------------------------
\* GroupBy.check_agg applied to one expression tree

\* one more level of Cast, Agg (sum or implode) and BinOp, the deeper operand
\* on either side
GrowAgg(S) ==
    ExprLeaves
    \cup {E("Cast", "", <<e>>) : e \in S}
    \cup {E("Agg", "sum", <<e>>) : e \in S}
    \cup {E("Agg", "implode", <<e>>) : e \in S}
    \cup {E("BinOp", "+", <<ColX, e>>) : e \in S}
    \cup {E("BinOp", "+", <<e, ColX>>) : e \in S}

RECURSIVE AggTrees(_)
AggTrees(d) ==
    IF d = 0 THEN ExprLeaves ELSE GrowAgg(AggTrees(d - 1))

InitCheckAgg ==
    /\ args \in {[kind |-> "check_agg", agg |-> e] : e \in AggTrees(MaxDepth)}
    /\ frames = <<>>
    /\ nodes = <<>>
    /\ ctor = CtorOk(0)
    /\ phase = "build"
    /\ stack = <<>>
    /\ cache = <<>>
    /\ ret = 0
    /\ err = "none"
    /\ nframes = 0
    /\ log = <<>>
    /\ res = NoRes
    /\ ExprIdle

\* the call GroupBy.check_agg(agg)
CheckAggCall ==
    /\ phase = "build" /\ args.kind = "check_agg"
    /\ NodeDone(check_agg(args.agg))
    /\ UNCHANGED <<nodes, args, ctor, stack, cache, ret, nframes, log>>
    /\ UNCHANGED frames
    /\ UNCHANGED evars

NextCheckAgg ==
    \/ CheckAggCall

SpecCheckAgg == InitCheckAgg /\ [][NextCheckAgg]_vars

\* ---- claims about check_agg, under SpecCheckAgg ----

CheckAggDone == args.kind = "check_agg" /\ phase = "done"

\* whether the tree holds an implode aggregation or a node that is none of
\* NamedExpr, Cast, BinOp, Agg, Col, Literal, Len
RECURSIVE HasUnsupported(_)
HasUnsupported(e) ==
    \/ e.kind \notin {"NamedExpr", "Cast", "BinOp", "Agg", "Col", "Literal",
                      "Len"}
    \/ e.kind = "Agg" /\ e.name = "implode"
    \/ \E i \in DOMAIN e.children : HasUnsupported(e.children[i])

\* the largest number of Agg, Cast and BinOp nodes on a path to a leaf
RECURSIVE LevelsOnPath(_)
LevelsOnPath(e) ==
    (IF e.kind \in {"Agg", "Cast", "BinOp"} THEN 1 ELSE 0)
    + (IF e.children = <<>> THEN 0
       ELSE SetMax({LevelsOnPath(e.children[i]) : i \in DOMAIN e.children}))

LeftKey == Key_evaluate(args.left_on[1], frames[1]).obj
RightKey == Key_evaluate(args.right_on[1], frames[2]).obj

\* C22: the result of a coalescing inner, left or outer Join (without a row
\* window) has no right-hand key column; for inner and left each row holds
\* the key of the left row it comes from (told by its row number in b); for
\* outer a row from a left row holds the left key and a row from an
\* unmatched right row (told by its row number in d) holds the right key
C22_Coalesce ==
    JoinDone /\ args.coalesce /\ args.zlice.none
             /\ args.how \in {"inner", "left", "outer"} =>
        /\ res.err = "none"
        /\ column_names(res.frame) = <<"a", "b", "d">>
        /\ \A r \in 1..num_rows(res.frame) :
              IF res.frame[2].obj[r].null
              THEN /\ args.how = "outer"
                   /\ \E j \in 1..num_rows(frames[2]) :
                         /\ res.frame[3].obj[r] = frames[2][2].obj[j]
                         /\ res.frame[1].obj[r] = RightKey[j]
              ELSE \E i \in 1..num_rows(frames[1]) :
                         /\ res.frame[2].obj[r] = frames[1][2].obj[i]
                         /\ res.frame[1].obj[r] = LeftKey[i]

\* the right column names that remain in the result, before renaming
RemainingRight ==
    LET Stays(n) == ~args.coalesce \/ n # args.right_on[1].name
    IN  SelectSeq(column_names(frames[2]), Stays)

\* C23: the column names of the result of an inner, left or outer Join are
\* the left names in order, then the remaining right names in order, each
\* right name that is also a left name with the suffix appended ("_right"
\* without a suffix option); the names are pairwise distinct
C23_ColumnNames ==
    JoinDone /\ args.how \in {"inner", "left", "outer"} =>
        LET sfx == IF args.suffix.none THEN "_right" ELSE args.suffix.v
            left == column_names(frames[1])
            right == [i \in DOMAIN RemainingRight |->
                        IF \E k \in DOMAIN left : left[k] = RemainingRight[i]
                        THEN RemainingRight[i] \o sfx
                        ELSE RemainingRight[i]]
            names == column_names(res.frame)
        IN  /\ res.err = "none"
            /\ names = left \o right
            /\ \A i, k \in DOMAIN names : i # k => names[i] # names[k]


\* ---- the row index of Scan, under SpecNode ----

ScanDone == args.kind = "Scan" /\ phase = "done"

\* the position of the first n rows of fr that pass the predicate b == 1
Survivors(a, fr) ==
    LET Passes(i) == a.predicate.none
                     \/ (~fr[2].obj[i].null /\ fr[2].obj[i].v = 1)
    IN  SelectSeq([i \in 1..num_rows(fr) |-> i], Passes)

\* C26: a Scan with a row index (name, offset) returns a frame whose last
\* column has that name, is tagged sorted ascending and holds, for each row
\* that passes the predicate, offset plus the row's position in the source,
\* so the column is strictly increasing
C26_RowIndex ==
    ScanDone /\ ~args.row_index.none =>
        /\ res.err = "none"
        /\ Len(res.frame) = Len(frames[1]) + 1
        /\ LET ix == res.frame[Len(res.frame)]
               rows == Survivors(args, frames[1])
           IN  /\ ix.name = args.row_index.v[1]
               /\ ix.is_sorted /\ ix.order = "ASCENDING"
               /\ ix.obj = [k \in DOMAIN rows |->
                                 Cell(args.row_index.v[2] + rows[k] - 1)]
               /\ \A k \in 1..(Len(ix.obj) - 1) :
                     ix.obj[k].v < ix.obj[k + 1].v


----------------------------------------------------------------------------
\* Sort and Distinct: a Sort evaluated on a child frame, then a Distinct
\* evaluated on the frame the Sort returned

\* sorting.sort_order(descending, nulls_last=, num_keys=): one flag is
\* repeated for all keys; an ascending key has its nulls AFTER when nulls
\* come last, a descending key BEFORE
sort_order(descending, nulls_last, num_keys) ==
    LET d == IF num_keys > Len(descending) /\ Len(descending) = 1
             THEN [i \in 1..num_keys |-> descending[1]]
             ELSE descending
        order == [i \in DOMAIN d |->
                    IF d[i] THEN "DESCENDING" ELSE "ASCENDING"]
    IN  [order |-> order,
         null_order |-> [i \in DOMAIN d |->
                            IF (order[i] = "ASCENDING") = nulls_last
                            THEN "AFTER" ELSE "BEFORE"]]

\* Sort.__init__: the orders of the keys and the sort primitive
Sort_init(a) ==
    [err |-> "none", msg |-> "", inspected |-> 0,
     order |-> sort_order(a.descending, a.nulls_last, Len(a.by)).order,
     null_order |->
         sort_order(a.descending, a.nulls_last, Len(a.by)).null_order,
     do_sort |-> IF a.stable THEN "stable_sort_by_key" ELSE "sort_by_key"]

\* whether key row x comes strictly before key row y in the given orders
ComesBefore(x, y, order, null_order) ==
    \E k \in DOMAIN x :
        /\ \A m \in 1..(k - 1) : x[m] = y[m]
        /\ x[k] # y[k]
        /\ IF order[k] = "ASCENDING" THEN CellLE(x[k], y[k], null_order[k])
           ELSE CellLE(y[k], x[k], null_order[k])

Perms(n) ==
    {p \in [1..n -> 1..n] : \A i, j \in 1..n : i # j => p[i] # p[j]}

\* plc.sorting.sort_by_key / stable_sort_by_key(table, keys, order,
\* null_order): the tables the primitive may return; rows with equal keys
\* keep their order under the stable primitive and come in any order under
\* the other
sort_by_key(do_sort, t, keys, order, null_order) ==
    LET n == NumRows(keys)
        kr == Rows(keys)
        ok == {p \in Perms(n) :
                 \A i, j \in 1..n :
                     i < j =>
                        /\ ~ComesBefore(kr[p[j]], kr[p[i]], order, null_order)
                        /\ (do_sort = "stable_sort_by_key"
                            /\ kr[p[i]] = kr[p[j]]) => p[i] < p[j]}
    IN  {[c \in DOMAIN t |-> [r \in 1..n |-> t[c][p[r]]]] : p \in ok}

\* the positions (from 0) of the sort keys that are columns of the frame:
\* names.get(k.name) is the position of the column of that name, and
\* `k is df.columns[i]` holds for the column a Col expression returns
keys_in_result(by, df) ==
    LET InFrame(e) == e.kind = "Col" /\ e.name \in column_names_set(df)
        ks == SelectSeq(by, InFrame)
    IN  [j \in DOMAIN ks |->
            SetMax({i \in DOMAIN df : df[i].name = ks[j].name}) - 1]

\* Sort.evaluate after the child returned df (c: what __init__ computed):
\* the possible outcomes; the tag of the column at position i is taken from
\* self.order[i] and self.null_order[i]
Sort_evaluate(a, c, df) ==
    LET sort_keys == [j \in DOMAIN a.by |-> Key_evaluate(a.by[j], df)]
        kir == keys_in_result(a.by, df)
        tables == sort_by_key(c.do_sort, table(df),
                              [j \in DOMAIN sort_keys |-> sort_keys[j].obj],
                              c.order, c.null_order)
        tagged(t) ==
            [i \in DOMAIN df |->
                IF \E j \in DOMAIN kir : kir[j] = i - 1
                THEN set_sorted(Column(t[i], df[i].name), TRUE,
                                c.order[i], c.null_order[i])
                ELSE Column(t[i], df[i].name)]
    IN  IF \E j \in DOMAIN kir : kir[j] + 1 > Len(c.order)
        THEN {NodeRaised("IndexError", "list index out of range", 0)}
        ELSE {NodeReturned(DataFrame_slice(DataFrame(tagged(t)), a.zlice),
                           c.do_sort, 0) : t \in tables}

\* the inputs: a frame of a column a that may hold nulls and a column b
SortFrames ==
    UNION {{DataFrame(<<Column(x, "a"), Column(y, "b")>>) :
               x \in [1..n -> KeyCells], y \in [1..n -> {Cell(1), Cell(2)}]} :
           n \in 0..MaxRows}
ColB == E("Col", "b", <<>>)
SortKeyLists ==
    {<<ColA>>, <<ColB>>, <<ColA, ColB>>, <<ColB, ColA>>, <<TwiceA>>}
SortArgs ==
    {[kind |-> "Sort", by |-> by, descending |-> d, nulls_last |-> nl,
      stable |-> st, zlice |-> NoSlice] :
        by \in SortKeyLists, d \in SeqsUpTo(BOOLEAN, 2) \ {<<>>},
        nl \in BOOLEAN, st \in BOOLEAN}

InitSorted ==
    /\ args \in {a \in SortArgs :
                    Len(a.descending) = 1 \/ Len(a.descending) = Len(a.by)}
    /\ frames \in {<<f>> : f \in SortFrames}
    /\ nodes = <<>>
    /\ ctor = CtorOk(0)
    /\ phase = "build"
    /\ stack = <<>>
    /\ cache = <<>>
    /\ ret = 0
    /\ err = "none"
    /\ nframes = 0
    /\ log = <<>>
    /\ res = NoRes
    /\ ExprIdle

\* Sort(schema, df, by, options, zlice): the constructor call
SortNew ==
    /\ phase = "build" /\ args.kind = "Sort"
    /\ ctor' = Sort_init(args)
    /\ phase' = "built"
    /\ UNCHANGED <<nodes, args, stack, cache, ret, err, nframes, log>>
    /\ UNCHANGED <<frames, res>>
    /\ UNCHANGED evars

\* Sort.evaluate on the frame its child returned
SortRun ==
    /\ phase = "built" /\ args.kind = "Sort"
    /\ \E r \in Sort_evaluate(args, ctor, frames[1]) :
          /\ res' = r
          /\ err' = r.err
          /\ phase' = IF r.err = "none" THEN "sorted" ELSE "done"
    /\ UNCHANGED <<nodes, args, ctor, stack, cache, ret, nframes, log>>
    /\ UNCHANGED frames
    /\ UNCHANGED evars


\* Distinct.__init__: options = (keep, subset, maintain_order, zlice)
Distinct_init(a) ==
    [err |-> "none", msg |-> "", inspected |-> 0,
     order |-> <<>>, null_order |-> <<>>,
     do_sort |-> IF a.maintain_order THEN "stable" ELSE "unstable"]

\* the rows of t a duplicate removal keeps: `others(r)` are the rows whose
\* duplicate row r is compared against
KeptRows(t, indices, keep, others(_)) ==
    LET rows == Rows(t)
        key(r) == [j \in DOMAIN indices |-> rows[r][indices[j]]]
        dup(r, q) == q \in others(r) /\ key(q) = key(r)
        Kept(r) ==
            CASE keep = "first" -> ~\E q \in 1..(r - 1) : dup(r, q)
              [] keep = "last" -> ~\E q \in (r + 1)..Len(rows) : dup(r, q)
              [] OTHER -> ~\E q \in DOMAIN rows : q # r /\ dup(r, q)
    IN  SelectSeq([r \in DOMAIN rows |-> r], Kept)

\* plc.stream_compaction.unique(table, indices, keep, EQUAL): one row of
\* each run of consecutive rows equal on the key columns
unique(t, indices, keep) ==
    LET Adjacent(r) == {r - 1, r + 1}
        kept == KeptRows(t, indices, keep, Adjacent)
    IN  {[c \in DOMAIN t |-> [r \in DOMAIN kept |-> t[c][kept[r]]]]}

\* plc.stream_compaction.stable_distinct(table, indices, keep, EQUAL,
\* ALL_EQUAL): one row of each set of rows equal on the key columns, in
\* the order of the input
stable_distinct(t, indices, keep) ==
    LET All(r) == 1..NumRows(t)
        kept == KeptRows(t, indices, keep, All)
    IN  {[c \in DOMAIN t |-> [r \in DOMAIN kept |-> t[c][kept[r]]]]}

\* plc.stream_compaction.distinct: the same rows in any order
distinct(t, indices, keep) ==
    LET All(r) == 1..NumRows(t)
        kept == KeptRows(t, indices, keep, All)
    IN  {[c \in DOMAIN t |-> [r \in DOMAIN kept |-> t[c][kept[p[r]]]]] :
            p \in Perms(Len(kept))}

\* the positions of the key columns of a Distinct
Distinct_indices(a, df) ==
    IF a.subset.none THEN [i \in DOMAIN df |-> i]
    ELSE LET InSubset(i) == df[i].name \in a.subset.v
         IN  SelectSeq([i \in DOMAIN df |-> i], InSubset)

\* Distinct.evaluate after the child returned df: the possible outcomes;
\* keys_sorted = all(c.is_sorted for c in df.columns)
Distinct_evaluate(a, df) ==
    LET indices == Distinct_indices(a, df)
        keys_sorted == \A i \in DOMAIN df : df[i].is_sorted
        branch == IF keys_sorted THEN "unique"
                  ELSE IF a.maintain_order THEN "stable_distinct"
                  ELSE "distinct"
        tables == CASE branch = "unique" -> unique(table(df), indices, a.keep)
                    [] branch = "stable_distinct" ->
                           stable_distinct(table(df), indices, a.keep)
                    [] OTHER -> distinct(table(df), indices, a.keep)
        result(t) == [i \in DOMAIN df |-> Column(t[i], df[i].name)]
    IN  {NodeReturned(
             DataFrame_slice(
                 IF keys_sorted \/ a.maintain_order
                 THEN DataFrame_with_sorted(result(t), df, column_names_set(df))
                 ELSE result(t), a.zlice), branch, 0) : t \in tables}

\* subset: None, or a set of column names
NoSubset == [none |-> TRUE, v |-> {}]
DistinctArgs ==
    {[kind |-> "Distinct", keep |-> k, subset |-> s, maintain_order |-> m,
      zlice |-> z] :
        k \in {"first", "none"}, s \in {NoSubset, Opt({"a"}), Opt({"b"})},
        m \in BOOLEAN, z \in Windows}

\* Distinct(schema, df, options) on the frame the Sort returned
DistinctNew ==
    /\ phase = "sorted"
    /\ args' \in DistinctArgs
    /\ ctor' = Distinct_init(args')
    /\ frames' = <<res.frame>>
    /\ res' = NoRes
    /\ phase' = "distinct"
    /\ UNCHANGED <<nodes, stack, cache, ret, err, nframes, log>>
    /\ UNCHANGED evars

\* Distinct.evaluate on the frame its child returned
DistinctRun ==
    /\ phase = "distinct" /\ args.kind = "Distinct"
    /\ \E r \in Distinct_evaluate(args, frames[1]) :
          /\ res' = r
          /\ err' = r.err
    /\ phase' = "done"
    /\ UNCHANGED <<nodes, args, ctor, stack, cache, ret, nframes, log>>
    /\ UNCHANGED frames
    /\ UNCHANGED evars

NextSorted ==
    \/ SortNew
    \/ SortRun
    \/ DistinctNew
    \/ DistinctRun

SpecSorted == InitSorted /\ [][NextSorted]_vars

SortDone == phase \in {"sorted", "done"} /\ args.kind = "Sort"
DistinctDone == phase = "done" /\ args.kind = "Distinct"


\* the positions in by of the keys that are the column of this name
KeysNamed(by, name) ==
    {j \in DOMAIN by : by[j].kind = "Col" /\ by[j].name = name}

\* C25: Sort.evaluate completes without an indexing error for any frame
\* and any keys; an output column that is the j-th sort key is tagged
\* sorted with the order and null order of that j-th key, a column that is
\* no sort key carries no tag, and the rows are the sorted rows, sliced
C25_SortTags ==
    SortDone =>
        /\ res.err = "none"
        /\ Len(res.frame) = Len(frames[1])
        /\ \A i \in DOMAIN frames[1] :
              LET ks == KeysNamed(args.by, frames[1][i].name)
                  col == res.frame[i]
              IN  IF ks = {} THEN ~col.is_sorted
                  ELSE /\ col.is_sorted
                       /\ \E j \in ks : /\ col.order = ctor.order[j]
                                        /\ col.null_order = ctor.null_order[j]
        /\ \E t \in sort_by_key(ctor.do_sort, table(frames[1]),
                                [j \in DOMAIN args.by |->
                                    Key_evaluate(args.by[j], frames[1]).obj],
                                ctor.order, ctor.null_order) :
              table(res.frame)
                  = table(DataFrame_slice(
                              from_table(t, column_names(frames[1])),
                              args.zlice))

\* C24: Distinct.evaluate takes the unique path exactly when all of its key
\* columns are tagged sorted in the child frame, whatever the tags of the
\* other columns, and stable_distinct or distinct (by stable) otherwise;
\* the result carries the child's tags exactly when the unique path was
\* taken or stable is set, and the slice is applied last
C24_DistinctPath ==
    DistinctDone =>
        LET df == frames[1]
            indices == Distinct_indices(args, df)
            keys_tagged == \A j \in DOMAIN indices : df[indices[j]].is_sorted
            prim == CASE res.branch = "unique" ->
                             unique(table(df), indices, args.keep)
                      [] res.branch = "stable_distinct" ->
                             stable_distinct(table(df), indices, args.keep)
                      [] OTHER -> distinct(table(df), indices, args.keep)
        IN  /\ res.err = "none"
            /\ res.branch = IF keys_tagged THEN "unique"
                            ELSE IF args.maintain_order THEN "stable_distinct"
                            ELSE "distinct"
            /\ \A i \in DOMAIN df :
                  IF res.branch = "unique" \/ args.maintain_order
                  THEN with_sorted(res.frame[i], df[i]) = res.frame[i]
                  ELSE ~res.frame[i].is_sorted
            /\ \E t \in prim :
                  table(res.frame)
                      = table(DataFrame_slice(from_table(t, column_names(df)),
                                              args.zlice))

\* C29: a column of a frame a node returned that is tagged sorted has its
\* rows in the order and null order of the tag, and a Distinct that took the
\* unique path returned rows the general path could have returned
C29_SortednessSound ==
    (phase \in {"sorted", "done"} /\ res.err = "none") =>
        /\ \A i \in DOMAIN res.frame :
              res.frame[i].is_sorted =>
                  InOrder(res.frame[i].obj, res.frame[i].order,
                          res.frame[i].null_order)
        /\ (DistinctDone /\ res.branch = "unique") =>
              \E t \in stable_distinct(table(frames[1]),
                                       Distinct_indices(args, frames[1]),
                                       args.keep) :
                  table(res.frame)
                      = table(DataFrame_slice(
                                  from_table(t, column_names(frames[1])),
                                  args.zlice))


----------------------------------------------------------------------------
\* ---- further claims about the frames nodes return, under SpecFrame ----

SelectDone == phase = "done" /\ args.kind = "Select"

\* the child frame with the columns of the first n common sub-expressions,
\* computed from column a: t1 = a * 2, t2 = a * 4
Extended(df, n) ==
    LET a == Col_evaluate(ColA, df).obj
        t == <<Column(binary_operation(a, 2, "*"), "t1"),
               Column(binary_operation(a, 4, "*"), "t2")>>
    IN  df \o SubSeq(t, 1, n)

\* C27: Select.evaluate evaluates each common sub-expression once, in list
\* order, against the child frame extended with the earlier ones, then each
\* projection against the extended frame; the frame returned holds exactly
\* the projection results in projection order, no temporary or input column
C27_SelectProjection ==
    SelectDone =>
        /\ res.err = "none"
        /\ Len(res.frame) = Len(args.expr)
        /\ \A i \in DOMAIN args.expr :
              res.frame[i]
                  = evaluate(args.expr[i],
                             Extended(frames[1], Len(args.cse))).result

\* C27: a Select of two common sub-expressions, the later one referring to
\* the earlier, projecting the later one from a frame with a non-null row
C27_Witness ==
    /\ SelectDone
    /\ args.cse = <<T1, T2>>
    /\ args.expr = <<E("Col", "t2", <<>>), ColA>>
    /\ res.err = "none"
    /\ \E r \in DOMAIN res.frame[1].obj : res.frame[1].obj[r] = Cell(8)

ExtContextDone == phase = "done" /\ args.kind = "ExtContext"

\* the first of the frames (base, then the extra contexts) with a column of
\* this name
FirstWith(name) ==
    SetMin({k \in DOMAIN frames : name \in column_names_set(frames[k])})

\* C28: ExtContext.evaluate returns the base frame's columns unchanged,
\* followed in list order by the columns of the extra contexts whose name
\* is not in the base frame or an earlier extra context: the first
\* occurrence of a name wins and the output names are pairwise distinct
C28_ExtContextNames ==
    ExtContextDone =>
        LET o == res.frame
            From(i) == FirstWith(o[i].name)
        IN  /\ res.err = "none"
            /\ SubSeq(o, 1, Len(frames[1])) = frames[1]
            /\ \A i, j \in DOMAIN o : i # j => o[i].name # o[j].name
            /\ column_names_set(o)
                   = UNION {column_names_set(frames[k]) : k \in DOMAIN frames}
            /\ \A i \in DOMAIN o :
                  \E c \in DOMAIN frames[From(i)] : frames[From(i)][c] = o[i]
            /\ \A i, j \in DOMAIN o : i < j => From(i) <= From(j)

\* C28: two extra contexts that share a column name with each other and
\* with the base frame, and differ in the values of the shared column
C28_Witness ==
    /\ ExtContextDone
    /\ Len(frames) = 3
    /\ column_names(frames[2]) = <<"d", "x">>
    /\ column_names(frames[3]) = <<"x", "y">>
    /\ frames[2][2].obj # frames[3][1].obj
    /\ column_names(res.frame) = <<"d", "e", "x", "y">>


----------------------------------------------------------------------------
\* ---- the cache during one top-level evaluation, under Spec ----

\* C30: the cache only grows and its entries are stable: an entry cache[k]
\* is never overwritten or removed, also when a Cache node with key k lies
\* inside the child of another Cache node with key k; the frame every
\* Cache.evaluate for key k returned is the frame stored under k; and a
\* frame a node creates is a new frame, not one the cache holds
C30_CacheStable ==
    /\ [](\A i \in DOMAIN log :
             log[i].op \in {"hit", "store"} =>
                 /\ log[i].key \in DOMAIN cache
                 /\ log[i].ret = cache[log[i].key])
    /\ [][/\ \A k \in DOMAIN cache :
                k \in DOMAIN cache' /\ cache'[k] = cache[k]
          /\ nframes' # nframes =>
                \A k \in DOMAIN cache' : cache'[k] # nframes']_vars

\* C30: a Cache node with key k inside the child of another one, whose
\* child returned a frame other than the one already stored under k
C30_Witness ==
    /\ phase = "done" /\ err = "none"
    /\ \E k \in Keys :
          /\ NestedKey(k)
          /\ \E i \in Events("store", k) :
                log[i].frame # log[i].ret /\ ret = cache[k]

====
